---- MODULE Spec2Model ----
(***************************************************************************)
(* Model of scripts/build-special-fixtures.py: the four operations that    *)
(* build deliberately defective EPUB (ZIP) archives.  Files are byte       *)
(* sequences; archives are written and read in the ZIP layout that the     *)
(* zipfile calls of the script produce (local file headers, central        *)
(* directory, end-of-central-directory record).                            *)
(***************************************************************************)
EXTENDS Integers, Sequences, FiniteSets, TLC

(***************************************************************************)
(* Bounds of the model.                                                    *)
(***************************************************************************)
\* longest file content (in bytes) of a source file
MaxLen == 2
\* number of times the script is run in one behaviour
MaxRuns == 2
\* number of I/O errors injected in one behaviour
MaxFailures == 1

(***************************************************************************)
(* Byte strings.  A Python bytes object is a sequence of 0..255; offsets   *)
(* in the source are 0-based, TLA+ sequences are 1-based.                  *)
(***************************************************************************)
\* "mimetype"
N_mimetype == <<109, 105, 109, 101, 116, 121, 112, 101>>
\* "META-INF"
N_META_INF == <<77, 69, 84, 65, 45, 73, 78, 70>>
\* "container.xml"
N_container_xml == <<99, 111, 110, 116, 97, 105, 110, 101, 114, 46, 120, 109, 108>>
\* "OEBPS"
N_OEBPS == <<79, 69, 66, 80, 83>>
\* "chapter1.xhtml"
N_chapter1_xhtml == <<99, 104, 97, 112, 116, 101, 114, 49, 46, 120, 104, 116, 109, 108>>
\* "Chapter1.xhtml"
N_Chapter1_xhtml == <<67, 104, 97, 112, 116, 101, 114, 49, 46, 120, 104, 116, 109, 108>>
\* "OEBPS/chapter1.xhtml"
A_chapter1 == N_OEBPS \o <<47>> \o N_chapter1_xhtml
\* "OEBPS/Chapter1.xhtml"
A_Chapter1 == N_OEBPS \o <<47>> \o N_Chapter1_xhtml
\* "application/epub+zip"
MimetypeText == <<97, 112, 112, 108, 105, 99, 97, 116, 105, 111, 110, 47,
                  101, 112, 117, 98, 43, 122, 105, 112>>
\* "<?xml version=..." : the first bytes of an XML document
XmlText == <<60, 63, 120, 109, 108>>
\* " Dupl...": bytes of the OEBPS/Chapter1.xhtml of the duplicate-item
\* fixture ("Chapter 1 Duplicate"), where it differs from chapter1.xhtml
OtherText == <<32, 68, 117, 112, 108>>

\* data[a:b]
Slice(data, a, b) == SubSeq(data, a + 1, b)

\* struct.pack('<H', n)
LE2(n) == <<n % 256, (n \div 256) % 256>>

\* struct.pack('<L', n)
LE4(n) == <<n % 256, (n \div 256) % 256, (n \div 65536) % 256, (n \div 16777216) % 256>>

\* struct.unpack_from('<H', data, off)[0]
U2(data, off) == data[off + 1] + 256 * data[off + 2]

\* struct.unpack_from('<L', data, off)[0], for the sizes and offsets of an
\* archive of less than 2^31 bytes
U4(data, off) ==
    data[off + 1] + 256 * data[off + 2] + 65536 * data[off + 3] + 16777216 * data[off + 4]

RECURSIVE Xor(_, _)
\* bitwise exclusive or of two naturals
Xor(a, b) ==
    IF a = 0 THEN b
    ELSE IF b = 0 THEN a
    ELSE ((a + b) % 2) + 2 * Xor(a \div 2, b \div 2)

\* One bit of the reflected CRC-32 (polynomial 0xEDB88320); the 32-bit
\* register is the pair <<high 16 bits, low 16 bits>>.
CrcShift(c) ==
    LET hi == c[1] \div 2
        lo == (c[2] \div 2) + (c[1] % 2) * 32768
    IN  IF c[2] % 2 = 1 THEN <<Xor(hi, 60856), Xor(lo, 33568)>> ELSE <<hi, lo>>

CrcByte(c, b) ==
    LET c0 == <<c[1], Xor(c[2], b)>>
    IN  CrcShift(CrcShift(CrcShift(CrcShift(CrcShift(CrcShift(CrcShift(CrcShift(c0))))))))

RECURSIVE CrcFold(_, _)
CrcFold(c, data) ==
    IF data = <<>> THEN c ELSE CrcFold(CrcByte(c, Head(data)), Tail(data))

\* zlib.crc32(data), as the four little-endian bytes of the header field
crc32(data) ==
    LET c == CrcFold(<<65535, 65535>>, data)
        hi == 65535 - c[1]
        lo == 65535 - c[2]
    IN  LE2(lo) \o LE2(hi)

\* the value of a read that raises instead of returning bytes
\* (zipfile.BadZipFile, zlib.error); no byte string equals it
BadZipFile == <<-1>>

\* A DEFLATE stream for data: one final stored block (BFINAL = 1,
\* BTYPE = 00, LEN, NLEN, the bytes).  Which block type zlib picks is not
\* fixed by the script; any choice is a stream of other bytes than data.
Deflate(data) ==
    <<1>> \o LE2(Len(data)) \o LE2(65535 - Len(data)) \o data

\* zlib decompression of such a stream: the bytes, or BadZipFile
Inflate(z) ==
    IF /\ Len(z) >= 5
       /\ z[1] = 1
       /\ U2(z, 1) + U2(z, 3) = 65535
       /\ Len(z) = 5 + U2(z, 1)
    THEN Slice(z, 5, Len(z))
    ELSE BadZipFile

ZIP_STORED == 0
ZIP_DEFLATED == 8

Compress(compress_type, data) ==
    IF compress_type = ZIP_DEFLATED THEN Deflate(data) ELSE data

Decompress(compress_type, z) ==
    IF compress_type = ZIP_DEFLATED THEN Inflate(z) ELSE z

(***************************************************************************)
(* Source trees and collect_files.  A tree maps the path of each file (a   *)
(* sequence of name components below the tree's root) to its content.      *)
(***************************************************************************)
RECURSIVE BytesLess(_, _)
\* a < b for Python str/bytes: lexicographic, a proper prefix is smaller
BytesLess(a, b) ==
    IF b = <<>> THEN FALSE
    ELSE IF a = <<>> THEN TRUE
    ELSE IF Head(a) # Head(b) THEN Head(a) < Head(b)
    ELSE BytesLess(Tail(a), Tail(b))

VARIABLE
    scandir         \* the names of the file system in the order it lists them

\* os.scandir, as os.walk calls it: the names of a directory in the order
\* the file system lists them
listdir(S) == SelectSeq(scandir, LAMBDA n : n \in S)

\* the list left in listing order
sorted_bug(names) == names

RECURSIVE sorted(_)
\* sorted(names) / names.sort(): the names of the list in ascending order
sorted(names) ==
    IF names = <<>> THEN <<>>
    ELSE LET m == CHOOSE i \in 1..Len(names) :
                      \A j \in 1..Len(names) : ~BytesLess(names[j], names[i])
         IN  <<names[m]>>
             \o sorted(SubSeq(names, 1, m - 1) \o SubSeq(names, m + 1, Len(names)))

RECURSIVE relpath(_)
\* os.path.relpath(os.path.join(root, f), src_dir): components joined by "/"
relpath(p) ==
    IF Len(p) = 1 THEN p[1] ELSE p[1] \o <<47>> \o relpath(Tail(p))

\* the paths of tree strictly below directory d
Below(tree, d) ==
    { p \in DOMAIN tree : Len(p) > Len(d) /\ SubSeq(p, 1, Len(d)) = d }

\* the 'files' and 'dirs' lists os.walk reports for directory d
WalkFiles(tree, d) ==
    listdir({ p[Len(d) + 1] : p \in { q \in Below(tree, d) : Len(q) = Len(d) + 1 } })
WalkDirs(tree, d) ==
    listdir({ p[Len(d) + 1] : p \in { q \in Below(tree, d) : Len(q) > Len(d) + 1 } })

RECURSIVE walk(_, _)
RECURSIVE walkDirs(_, _, _)
\* the (arcname, filepath) pairs of directory d and, after them, of its
\* subdirectories, each list in sorted order
walk(tree, d) ==
    LET files == sorted(WalkFiles(tree, d))
    IN  [i \in 1..Len(files) |-> <<relpath(Append(d, files[i])), Append(d, files[i])>>]
        \o walkDirs(tree, d, sorted(WalkDirs(tree, d)))
walkDirs(tree, d, ds) ==
    IF ds = <<>> THEN <<>>
    ELSE walk(tree, Append(d, Head(ds))) \o walkDirs(tree, d, Tail(ds))

collect_files(src_dir, exclude) ==
    SelectSeq(walk(src_dir, <<>>), LAMBDA x : x[1] \notin exclude)

(***************************************************************************)
(* The ZIP layout written by zipfile.ZipFile.  A ZipInfo is the record     *)
(*   [filename, compress_type, date_time, external_attr, extra, CRC,       *)
(*    compress_size, file_size, header_offset]                             *)
(* with date_time the (DOS time, DOS date) pair and external_attr and CRC  *)
(* kept as the four bytes of their header fields.                          *)
(***************************************************************************)
\* the modification time of the source files: 2025-01-01 00:00:00
SrcDateTime == <<0, 45 * 512 + 1 * 32 + 1>>
\* ZipInfo's default date_time, (1980, 1, 1, 0, 0, 0)
DefaultDateTime == <<0, 0 * 512 + 1 * 32 + 1>>
\* (st_mode << 16) of a regular file with mode 0644: 0x81A40000
SrcExternalAttr == <<0, 0, 164, 129>>
\* the mode 0600 writestr gives an entry without one: 0x01800000
DefaultExternalAttr == <<0, 0, 128, 1>>

\* ZipInfo.from_file(filepath, arcname) with the given compress_type
FromFile(arcname, compress_type) ==
    [filename |-> arcname, compress_type |-> compress_type,
     date_time |-> SrcDateTime, external_attr |-> SrcExternalAttr,
     extra |-> <<>>, CRC |-> crc32(<<>>), compress_size |-> 0, file_size |-> 0,
     header_offset |-> 0]

\* zipfile.ZipInfo(filename)
ZipInfo(filename) ==
    [filename |-> filename, compress_type |-> ZIP_STORED,
     date_time |-> DefaultDateTime, external_attr |-> DefaultExternalAttr,
     extra |-> <<>>, CRC |-> crc32(<<>>), compress_size |-> 0, file_size |-> 0,
     header_offset |-> 0]

stringFileHeader == <<80, 75, 3, 4>>
stringCentralDir == <<80, 75, 1, 2>>
stringEndArchive == <<80, 75, 5, 6>>
sizeFileHeader == 30
sizeCentralDir == 46
sizeEndCentDir == 22

\* ZipInfo.FileHeader(): the local file header of an entry
FileHeader(zi) ==
    stringFileHeader \o LE2(20) \o LE2(0) \o LE2(zi.compress_type)
    \o LE2(zi.date_time[1]) \o LE2(zi.date_time[2])
    \o zi.CRC \o LE4(zi.compress_size) \o LE4(zi.file_size)
    \o LE2(Len(zi.filename)) \o LE2(Len(zi.extra))
    \o zi.filename \o zi.extra

\* the central directory record of an entry
CentralHeader(zi) ==
    stringCentralDir \o <<20, 3>> \o LE2(20) \o LE2(0) \o LE2(zi.compress_type)
    \o LE2(zi.date_time[1]) \o LE2(zi.date_time[2])
    \o zi.CRC \o LE4(zi.compress_size) \o LE4(zi.file_size)
    \o LE2(Len(zi.filename)) \o LE2(Len(zi.extra)) \o LE2(0)
    \o LE2(0) \o LE2(0) \o zi.external_attr \o LE4(zi.header_offset)
    \o zi.filename \o zi.extra

RECURSIVE CentralDir(_)
CentralDir(filelist) ==
    IF filelist = <<>> THEN <<>>
    ELSE CentralHeader(Head(filelist)) \o CentralDir(Tail(filelist))

\* the end-of-central-directory record
EndRecord(count, size_cd, offset_cd) ==
    stringEndArchive \o LE2(0) \o LE2(0) \o LE2(count) \o LE2(count)
    \o LE4(size_cd) \o LE4(offset_cd) \o LE2(0)

\* The ZipInfo that zf.write / zf.writestr records for an entry written with
\* content 'data' when the archive file holds 'bytes' so far.
Written(bytes, zinfo, data) ==
    [zinfo EXCEPT !.CRC = crc32(data),
                  !.compress_size = Len(Compress(zinfo.compress_type, data)),
                  !.file_size = Len(data),
                  !.header_offset = Len(bytes)]

\* the archive file after that entry is written: header, then payload
WriteEntry(bytes, zinfo, data) ==
    bytes \o FileHeader(Written(bytes, zinfo, data))
          \o Compress(zinfo.compress_type, data)

\* ZipFile.close() in mode 'w': central directory and end record
CloseArchive(bytes, filelist) ==
    bytes \o CentralDir(filelist)
          \o EndRecord(Len(filelist), Len(CentralDir(filelist)), Len(bytes))

(***************************************************************************)
(* Reading an archive as zipfile.ZipFile(path, 'r') does.                  *)
(***************************************************************************)
\* the end record is the last 22 bytes of an archive without comment
HasEndRecord(bytes) ==
    /\ Len(bytes) >= sizeEndCentDir
    /\ Slice(bytes, Len(bytes) - sizeEndCentDir, Len(bytes) - sizeEndCentDir + 4)
         = stringEndArchive
    /\ U2(bytes, Len(bytes) - 2) = 0

\* the central directory record at position pos, as a ZipInfo whose
\* header_offset is shifted by concat
ParseCentral(bytes, pos, concat) ==
    LET n == U2(bytes, pos + 28)
        e == U2(bytes, pos + 30)
    IN  [filename |-> Slice(bytes, pos + sizeCentralDir, pos + sizeCentralDir + n),
         compress_type |-> U2(bytes, pos + 10),
         date_time |-> <<U2(bytes, pos + 12), U2(bytes, pos + 14)>>,
         external_attr |-> Slice(bytes, pos + 38, pos + 42),
         extra |-> Slice(bytes, pos + sizeCentralDir + n, pos + sizeCentralDir + n + e),
         CRC |-> Slice(bytes, pos + 16, pos + 20),
         compress_size |-> U4(bytes, pos + 20),
         file_size |-> U4(bytes, pos + 24),
         header_offset |-> U4(bytes, pos + 42) + concat]

RECURSIVE DirOK(_, _, _)
\* the bytes in [pos, end) are a sequence of central directory records
DirOK(bytes, pos, end) ==
    IF pos >= end THEN TRUE
    ELSE /\ pos >= 0
         /\ pos + sizeCentralDir <= Len(bytes)
         /\ Slice(bytes, pos, pos + 4) = stringCentralDir
         /\ LET size == sizeCentralDir + U2(bytes, pos + 28) + U2(bytes, pos + 30)
                        + U2(bytes, pos + 32)
            IN  pos + size <= Len(bytes) /\ DirOK(bytes, pos + size, end)

RECURSIVE ParseDir(_, _, _, _)
\* the records of the central directory in [pos, end)
ParseDir(bytes, pos, end, concat) ==
    IF pos >= end THEN <<>>
    ELSE LET size == sizeCentralDir + U2(bytes, pos + 28) + U2(bytes, pos + 30)
                     + U2(bytes, pos + 32)
         IN  <<ParseCentral(bytes, pos, concat)>>
             \o ParseDir(bytes, pos + size, end, concat)

\* zipfile locates the directory from the end record's position: concat is
\* the number of bytes by which the recorded offsets are taken to be off
Concat(bytes) ==
    LET endrec == Len(bytes) - sizeEndCentDir
    IN  endrec - U4(bytes, endrec + 12) - U4(bytes, endrec + 16)

\* ZipFile(path, 'r') does not raise BadZipFile
is_zipfile(bytes) ==
    /\ HasEndRecord(bytes)
    /\ Concat(bytes) >= 0
    /\ DirOK(bytes, U4(bytes, Len(bytes) - sizeEndCentDir + 16) + Concat(bytes),
             Len(bytes) - sizeEndCentDir)

\* ZipFile._RealGetContents: the filelist of an archive
infolist(bytes) ==
    ParseDir(bytes, U4(bytes, Len(bytes) - sizeEndCentDir + 16) + Concat(bytes),
             Len(bytes) - sizeEndCentDir, Concat(bytes))

\* ZipFile.open(zinfo).read(): the content of the entry, or BadZipFile
ReadEntry(bytes, zinfo) ==
    LET pos == zinfo.header_offset
    IN  IF \/ pos < 0
           \/ pos + sizeFileHeader > Len(bytes)
           \/ Slice(bytes, pos, pos + 4) # stringFileHeader
        THEN BadZipFile
        ELSE LET n == U2(bytes, pos + 26)
                 e == U2(bytes, pos + 28)
                 start == pos + sizeFileHeader + n + e
             IN  IF \/ start + zinfo.compress_size > Len(bytes)
                    \/ Slice(bytes, pos + sizeFileHeader, pos + sizeFileHeader + n)
                         # zinfo.filename
                 THEN BadZipFile
                 ELSE LET data == Decompress(zinfo.compress_type,
                                     Slice(bytes, start, start + zinfo.compress_size))
                      IN  IF data = BadZipFile THEN BadZipFile
                          ELSE IF crc32(data) # zinfo.CRC THEN BadZipFile
                          ELSE data

\* name in ZipFile.NameToInfo
HasName(filelist, name) ==
    \E i \in 1..Len(filelist) : filelist[i].filename = name

\* ZipFile.getinfo(name): NameToInfo keeps the last entry of that name
getinfo(filelist, name) ==
    LET S == { i \in 1..Len(filelist) : filelist[i].filename = name }
    IN  filelist[CHOOSE i \in S : \A j \in S : j <= i]

\* ZipFile.read(name), for a name of the archive
read(bytes, filelist, name) ==
    ReadEntry(bytes, getinfo(filelist, name))

(***************************************************************************)
(* The state of a run of the script.                                       *)
(***************************************************************************)
VARIABLES
    fs,             \* the files below FIXTURES_OUT/invalid: path -> bytes or NoFile
    base,           \* the source tree BASE (fixtures/src/valid/minimal-epub3)
    pc,             \* the statement the script is at
    runs,           \* how many times the script has been started
    failures,       \* how many I/O errors have happened
    zf,             \* filelist of the ZipFile open for writing (zf, zout)
    zin,            \* filelist of the ZipFile open for reading
    iter,           \* the items a for loop has still to visit
    data,           \* bytearray 'data' of build_mimetype_extra_field
    chapter1_data,  \* bytes read from OEBPS/chapter1.xhtml
    before,         \* the files as they were when the current operation began
    prev,           \* the files as the previous run left them, if it completed
    exclude,        \* the 'exclude' argument of the collect_files calls
    yielded,        \* what each collect_files call so far has yielded
    checks,         \* the check table of the expectation generator that runs
    reference,      \* the files below reference/: (category, name) -> document
    expected,       \* the files below expected/: (category, name) -> record
    console,        \* the lines the expectation generator has printed
    created,        \* 'created' of main in create-level2-expected.py
    skipped,        \* 'skipped' of main in create-level2-expected.py
    ran,            \* the expectation generators started so far, in order
    written,        \* the paths of the record files written so far, in order
    fixtures_src,   \* the directories below fixtures/src: (category, name) -> tree
    call,           \* the arguments of the last create_fixture call
    calls,          \* how many fixture directories have been created
    fixtures_before \* fixtures/src as it was when that call began

\* the state of collect_files, of the expectation generators and of the
\* fixture generators
walkState == <<scandir, exclude, yielded>>
expectedState == <<checks, reference, expected, console, created, skipped, ran, written>>
fixturesState == <<fixtures_src, call, calls, fixtures_before>>

\* the state that no statement of build-special-fixtures.py writes
outside == <<walkState, expectedState, fixturesState>>

\* the state of build-special-fixtures.py but for pc and iter
buildState == <<fs, base, runs, failures, zf, zin, data, chapter1_data, before, prev>>

vars == <<fs, base, pc, runs, failures, zf, zin, iter, data, chapter1_data, before, prev,
          outside>>

\* a path that holds no file; no byte string equals it
NoFile == <<-2>>

OUT_NOT_FIRST == "invalid/ocf-mimetype-not-first.epub"
OUT_COMPRESSED == "invalid/ocf-mimetype-compressed.epub"
OUT_EXTRA_FIELD == "invalid/ocf-mimetype-extra-field.epub"
TMP_EXTRA_FIELD == "invalid/ocf-mimetype-extra-field.epub.tmp"
EPUB_DUPLICATE == "invalid/manifest-duplicate-item-same-resource.epub"
TMP_DUPLICATE == "invalid/manifest-duplicate-item-same-resource.epub.tmp"

Paths == {OUT_NOT_FIRST, OUT_COMPRESSED, OUT_EXTRA_FIELD, TMP_EXTRA_FIELD,
          EPUB_DUPLICATE, TMP_DUPLICATE}

P_mimetype == <<N_mimetype>>
P_container == <<N_META_INF, N_container_xml>>
P_chapter1 == <<N_OEBPS, N_chapter1_xhtml>>
P_Chapter1 == <<N_OEBPS, N_Chapter1_xhtml>>

\* the first k bytes of text
Prefix(text, k) == SubSeq(text, 1, IF k < Len(text) THEN k ELSE Len(text))

\* a tree with the given files, each holding k bytes
Tree(paths, k) ==
    [p \in paths |-> IF p = P_mimetype THEN Prefix(MimetypeText, k)
                     ELSE IF p = P_Chapter1 THEN Prefix(OtherText, k)
                     ELSE Prefix(XmlText, k)]

\* The source trees the script may find at BASE: a mimetype file and any of
\* the other files, or a tree whose mimetype file is missing.
BaseTrees ==
    { Tree({P_mimetype} \cup S, k) : S \in SUBSET {P_container, P_chapter1}, k \in 0..MaxLen }
    \cup { Tree({P_container, P_chapter1}, k) : k \in 0..MaxLen }

\* The source trees of the fixture manifest-duplicate-item-same-resource:
\* the defaults with OEBPS/chapter1.xhtml and, on a case-sensitive file
\* system, OEBPS/Chapter1.xhtml next to it.
DuplicateTrees ==
    { Tree({P_mimetype, P_chapter1} \cup S, k) : S \in SUBSET {P_Chapter1}, k \in 0..MaxLen }

\* The order in which the file system lists the names when the script runs:
\* the reverse of the sorted order (SpecWalk below draws every order).
ScanOrders ==
    { <<N_mimetype, N_container_xml, N_chapter1_xhtml, N_OEBPS, N_META_INF,
        N_Chapter1_xhtml>> }

RECURSIVE BuildEntries(_, _, _, _)
\* the archive bytes and filelist after writing the listed files DEFLATED
BuildEntries(tree, files, bytes, filelist) ==
    IF files = <<>> THEN <<bytes, filelist>>
    ELSE LET zinfo == FromFile(Head(files)[1], ZIP_DEFLATED)
             content == tree[Head(files)[2]]
         IN  BuildEntries(tree, Tail(files), WriteEntry(bytes, zinfo, content),
                          Append(filelist, Written(bytes, zinfo, content)))

\* a normal epub of a tree: mimetype first and stored, the rest deflated
BuildEpub(tree) ==
    LET zinfo == FromFile(N_mimetype, ZIP_STORED)
        first == WriteEntry(<<>>, zinfo, tree[P_mimetype])
        all == BuildEntries(tree, collect_files(tree, {N_mimetype}), first,
                            <<Written(<<>>, zinfo, tree[P_mimetype])>>)
    IN  CloseArchive(all[1], all[2])

\* no expectation generator runs
NoExpected ==
    /\ checks = <<>>
    /\ reference = <<>>
    /\ expected = <<>>
    /\ console = <<>>
    /\ created = 0
    /\ skipped = 0
    /\ ran = <<>>
    /\ written = <<>>

\* no fixture generator runs
NoFixtures ==
    /\ fixtures_src = <<>>
    /\ call = [fn |-> ""]
    /\ calls = 0
    /\ fixtures_before = <<>>

\* build-special-fixtures.py does not run
NoBuild ==
    /\ scandir \in ScanOrders
    /\ exclude = {}
    /\ yielded = <<>>
    /\ fs = [p \in Paths |-> NoFile]
    /\ base = <<>>
    /\ runs = 0
    /\ failures = 0
    /\ zf = <<>>
    /\ zin = <<>>
    /\ data = <<>>
    /\ chapter1_data = <<>>
    /\ before = fs
    /\ prev = [p \in Paths |-> NoFile]

Init ==
    /\ NoExpected
    /\ NoFixtures
    /\ scandir \in ScanOrders
    /\ exclude = {N_mimetype}
    /\ yielded = <<>>
    /\ base \in BaseTrees
    /\ \E tree \in DuplicateTrees :
           fs = [p \in Paths |-> IF p = EPUB_DUPLICATE THEN BuildEpub(tree) ELSE NoFile]
    /\ pc = "idle"
    /\ runs = 0
    /\ failures = 0
    /\ zf = <<>>
    /\ zin = <<>>
    /\ iter = <<>>
    /\ data = <<>>
    /\ chapter1_data = <<>>
    /\ before = fs
    /\ prev = [p \in Paths |-> NoFile]

(***************************************************************************)
(* Steps shared by the operations.                                         *)
(***************************************************************************)
\* the exception caught and logged by the caller, which goes on with the
\* last operation
Raise_bug(newfs) ==
    /\ fs' = newfs
    /\ pc' = "duplicate_open_in"
    /\ zf' = <<>>
    /\ zin' = <<>>
    /\ iter' = <<>>
    /\ data' = <<>>
    /\ chapter1_data' = <<>>
    /\ UNCHANGED <<outside, base, runs, before, prev>>

\* an exception propagates out of the script: the run stops
Raise(newfs) ==
    /\ fs' = newfs
    /\ pc' = "aborted"
    /\ zf' = <<>>
    /\ zin' = <<>>
    /\ iter' = <<>>
    /\ data' = <<>>
    /\ chapter1_data' = <<>>
    /\ UNCHANGED <<outside, base, runs, before, prev>>

\* leaving 'with zipfile.ZipFile(path, 'w')' closes the archive, also when
\* an exception leaves it: the directory of the entries written so far
Closed(path) == [fs EXCEPT ![path] = CloseArchive(fs[path], zf)]

\* zipfile.ZipFile(path, 'w'): the file is created or truncated
OpenArchive(path, next) ==
    /\ fs' = [fs EXCEPT ![path] = <<>>]
    /\ zf' = <<>>
    /\ pc' = next

\* zf.write(filepath, arcname, compress_type) of a file of BASE
WriteFile(path, arcname, filepath, compress_type) ==
    /\ fs' = [fs EXCEPT ![path] =
                 WriteEntry(fs[path], FromFile(arcname, compress_type), base[filepath])]
    /\ zf' = Append(zf, Written(fs[path], FromFile(arcname, compress_type), base[filepath]))

\* zout.writestr(zinfo, bytes)
WriteStr(path, zinfo, bytes) ==
    /\ fs' = [fs EXCEPT ![path] = WriteEntry(fs[path], zinfo, bytes)]
    /\ zf' = Append(zf, Written(fs[path], zinfo, bytes))

\* the end of the with block: the archive is closed
CloseStep(path, next) ==
    /\ fs' = Closed(path)
    /\ zf' = <<>>
    /\ pc' = next

(***************************************************************************)
(* if __name__ == "__main__": the script is started (again).               *)
(***************************************************************************)
main ==
    /\ pc \in {"idle", "done", "aborted"}
    /\ runs < MaxRuns
    /\ runs' = runs + 1
    /\ pc' = "not_first_open"
    /\ before' = fs
    /\ prev' = IF pc = "done" THEN fs ELSE [p \in Paths |-> NoFile]
    /\ UNCHANGED <<fs, outside, base, failures, zf, zin, iter, data, chapter1_data>>

(***************************************************************************)
(* build_mimetype_not_first                                                *)
(***************************************************************************)
\* the mimetype entry written DEFLATED like the other entries
not_first_compress_type_bug == ZIP_DEFLATED

\* the compression method of the mimetype entry
not_first_compress_type == ZIP_STORED

not_first_open ==
    /\ pc = "not_first_open"
    /\ OpenArchive(OUT_NOT_FIRST, "not_first_loop")
    /\ iter' = collect_files(base, {N_mimetype})
    /\ UNCHANGED <<outside, base, runs, failures, zin, data, chapter1_data, before, prev>>

not_first_write ==
    /\ pc = "not_first_loop"
    /\ iter # <<>>
    /\ WriteFile(OUT_NOT_FIRST, Head(iter)[1], Head(iter)[2], ZIP_DEFLATED)
    /\ iter' = Tail(iter)
    /\ UNCHANGED <<outside, base, pc, runs, failures, zin, data, chapter1_data, before, prev>>

not_first_mimetype ==
    /\ pc = "not_first_loop"
    /\ iter = <<>>
    /\ IF P_mimetype \in DOMAIN base
       THEN /\ WriteFile(OUT_NOT_FIRST, N_mimetype, P_mimetype, not_first_compress_type)
            /\ pc' = "not_first_close"
            /\ UNCHANGED <<outside, base, runs, zin, iter, data, chapter1_data, before, prev>>
       ELSE Raise(Closed(OUT_NOT_FIRST))
    /\ UNCHANGED failures

not_first_close ==
    /\ pc = "not_first_close"
    /\ CloseStep(OUT_NOT_FIRST, "compressed_open")
    /\ before' = fs'
    /\ UNCHANGED <<outside, base, runs, failures, zin, iter, data, chapter1_data, prev>>

build_mimetype_not_first ==
    \/ not_first_open
    \/ not_first_write
    \/ not_first_mimetype
    \/ not_first_close

(***************************************************************************)
(* build_mimetype_compressed                                               *)
(***************************************************************************)
\* the mimetype entry written STORED, as in a normal epub
compressed_compress_type_bug == ZIP_STORED

\* the compression method of the mimetype entry
compressed_compress_type == ZIP_DEFLATED

compressed_open ==
    /\ pc = "compressed_open"
    /\ OpenArchive(OUT_COMPRESSED, "compressed_mimetype")
    /\ UNCHANGED <<outside, base, runs, failures, zin, iter, data, chapter1_data, before, prev>>

compressed_mimetype ==
    /\ pc = "compressed_mimetype"
    /\ IF P_mimetype \in DOMAIN base
       THEN /\ WriteFile(OUT_COMPRESSED, N_mimetype, P_mimetype, compressed_compress_type)
            /\ pc' = "compressed_loop"
            /\ iter' = collect_files(base, {N_mimetype})
            /\ UNCHANGED <<outside, base, runs, zin, data, chapter1_data, before, prev>>
       ELSE Raise(Closed(OUT_COMPRESSED))
    /\ UNCHANGED failures

compressed_write ==
    /\ pc = "compressed_loop"
    /\ iter # <<>>
    /\ WriteFile(OUT_COMPRESSED, Head(iter)[1], Head(iter)[2], ZIP_DEFLATED)
    /\ iter' = Tail(iter)
    /\ UNCHANGED <<outside, base, pc, runs, failures, zin, data, chapter1_data, before, prev>>

compressed_close ==
    /\ pc = "compressed_loop"
    /\ iter = <<>>
    /\ CloseStep(OUT_COMPRESSED, "extra_field_open")
    /\ before' = fs'
    /\ UNCHANGED <<outside, base, runs, failures, zin, iter, data, chapter1_data, prev>>

build_mimetype_compressed ==
    \/ compressed_open
    \/ compressed_mimetype
    \/ compressed_write
    \/ compressed_close

(***************************************************************************)
(* build_mimetype_extra_field                                              *)
(***************************************************************************)
\* the block with its length field counting the whole block, header included
extra_data_bug == LE2(51966) \o LE2(8) \o <<0, 0, 0, 0>>

\* struct.pack('<HH', 0xCAFE, 4) + b'\x00\x00\x00\x00'
extra_data == LE2(51966) \o LE2(4) \o <<0, 0, 0, 0>>

\* buf[a:b] with Python's clamping of slice bounds
Clamp(buf, a, b) ==
    LET hi == IF b > Len(buf) THEN Len(buf) ELSE b
        lo == IF a > hi THEN hi ELSE a
    IN  Slice(buf, lo, hi)

\* unpack_from and pack_into raise struct.error instead of patching
PatchRaises(buf) ==
    \/ Len(buf) < sizeFileHeader
    \/ U2(buf, 28) + Len(extra_data) > 65535

\* the splice without the pack_into of line 85: the length field is stale
PatchExtraField_bug(buf) ==
    LET insert_at == 30 + U2(buf, 26) + U2(buf, 28)
    IN  Clamp(buf, 0, insert_at) \o extra_data \o Clamp(buf, insert_at, Len(buf))

\* the bytearray after lines 71-88: the extra field length at offset 28
\* rewritten and extra_data inserted after the existing extra field
PatchExtraField(buf) ==
    LET extra_len == U2(buf, 28)
        fname_len == U2(buf, 26)
        insert_at == 30 + fname_len + extra_len
        new_extra_len == extra_len + Len(extra_data)
        packed == Slice(buf, 0, 28) \o LE2(new_extra_len) \o Slice(buf, 30, Len(buf))
    IN  Clamp(packed, 0, insert_at) \o extra_data \o Clamp(packed, insert_at, Len(packed))

extra_field_open ==
    /\ pc = "extra_field_open"
    /\ OpenArchive(TMP_EXTRA_FIELD, "extra_field_mimetype")
    /\ UNCHANGED <<outside, base, runs, failures, zin, iter, data, chapter1_data, before, prev>>

extra_field_mimetype ==
    /\ pc = "extra_field_mimetype"
    /\ IF P_mimetype \in DOMAIN base
       THEN /\ WriteFile(TMP_EXTRA_FIELD, N_mimetype, P_mimetype, ZIP_STORED)
            /\ pc' = "extra_field_loop"
            /\ iter' = collect_files(base, {N_mimetype})
            /\ UNCHANGED <<outside, base, runs, zin, data, chapter1_data, before, prev>>
       ELSE Raise(Closed(TMP_EXTRA_FIELD))
    /\ UNCHANGED failures

extra_field_write ==
    /\ pc = "extra_field_loop"
    /\ iter # <<>>
    /\ WriteFile(TMP_EXTRA_FIELD, Head(iter)[1], Head(iter)[2], ZIP_DEFLATED)
    /\ iter' = Tail(iter)
    /\ UNCHANGED <<outside, base, pc, runs, failures, zin, data, chapter1_data, before, prev>>

extra_field_close ==
    /\ pc = "extra_field_loop"
    /\ iter = <<>>
    /\ CloseStep(TMP_EXTRA_FIELD, "extra_field_read")
    /\ UNCHANGED <<outside, base, runs, failures, zin, iter, data, chapter1_data, before, prev>>

\* with open(tmp, 'rb') as f: data = bytearray(f.read())
extra_field_read ==
    /\ pc = "extra_field_read"
    /\ data' = fs[TMP_EXTRA_FIELD]
    /\ pc' = "extra_field_assert"
    /\ UNCHANGED <<fs, outside, base, runs, failures, zf, zin, iter, chapter1_data, before, prev>>

\* the assert stripped (as under python -O): the script goes on to patch
extra_field_assert_bug ==
    /\ pc = "extra_field_assert"
    /\ pc' = "extra_field_patch"
    /\ UNCHANGED <<fs, outside, base, runs, failures, zf, zin, iter, data, chapter1_data, before, prev>>

\* assert data[0:4] == b'PK\x03\x04'
extra_field_assert ==
    /\ pc = "extra_field_assert"
    /\ IF Clamp(data, 0, 4) = stringFileHeader
       THEN /\ pc' = "extra_field_patch"
            /\ UNCHANGED <<fs, outside, base, runs, zf, zin, iter, data, chapter1_data, before, prev>>
       ELSE Raise(fs)
    /\ UNCHANGED failures

\* lines 71-88, on the bytearray in memory
extra_field_patch ==
    /\ pc = "extra_field_patch"
    /\ IF PatchRaises(data)
       THEN Raise(fs)
       ELSE /\ data' = PatchExtraField(data)
            /\ pc' = "extra_field_open_out"
            /\ UNCHANGED <<fs, outside, base, runs, zf, zin, iter, chapter1_data, before, prev>>
    /\ UNCHANGED failures

\* open(out, 'wb'): the file is created or truncated
extra_field_open_out ==
    /\ pc = "extra_field_open_out"
    /\ fs' = [fs EXCEPT ![OUT_EXTRA_FIELD] = <<>>]
    /\ pc' = "extra_field_write_out"
    /\ UNCHANGED <<outside, base, runs, failures, zf, zin, iter, data, chapter1_data, before, prev>>

\* f.write(data)
extra_field_write_out ==
    /\ pc = "extra_field_write_out"
    /\ fs' = [fs EXCEPT ![OUT_EXTRA_FIELD] = data]
    /\ pc' = "extra_field_remove"
    /\ UNCHANGED <<outside, base, runs, failures, zf, zin, iter, data, chapter1_data, before, prev>>

\* os.remove(tmp)
extra_field_remove ==
    /\ pc = "extra_field_remove"
    /\ fs' = [fs EXCEPT ![TMP_EXTRA_FIELD] = NoFile]
    /\ data' = <<>>
    /\ pc' = "duplicate_open_in"
    /\ before' = fs'
    /\ UNCHANGED <<outside, base, runs, failures, zf, zin, iter, chapter1_data, prev>>

\* the steps that build the normal epub at tmp
extra_field_build ==
    \/ extra_field_open
    \/ extra_field_mimetype
    \/ extra_field_write
    \/ extra_field_close

\* the steps that patch it into the output
extra_field_splice ==
    \/ extra_field_read
    \/ extra_field_assert
    \/ extra_field_patch
    \/ extra_field_open_out
    \/ extra_field_write_out
    \/ extra_field_remove

build_mimetype_extra_field ==
    \/ extra_field_build
    \/ extra_field_splice

(***************************************************************************)
(* build_manifest_duplicate_item_same_resource                             *)
(***************************************************************************)
\* zout opened on the archive itself instead of on the temporary file
duplicate_tmp_bug == EPUB_DUPLICATE

\* the path that zout is written to
duplicate_tmp == TMP_DUPLICATE

\* the added entry named like the original, with no change of case
dup_bug == [ZipInfo(A_chapter1) EXCEPT !.compress_type = ZIP_DEFLATED]

\* dup = zipfile.ZipInfo("OEBPS/Chapter1.xhtml"); dup.compress_type = ZIP_DEFLATED
dup == [ZipInfo(A_Chapter1) EXCEPT !.compress_type = ZIP_DEFLATED]

\* with zipfile.ZipFile(epub, 'r') as zin
duplicate_open_in ==
    /\ pc = "duplicate_open_in"
    /\ IF fs[EPUB_DUPLICATE] # NoFile /\ is_zipfile(fs[EPUB_DUPLICATE])
       THEN /\ zin' = infolist(fs[EPUB_DUPLICATE])
            /\ pc' = "duplicate_read"
            /\ UNCHANGED <<fs, outside, base, runs, zf, iter, data, chapter1_data, before, prev>>
       ELSE Raise(fs)
    /\ UNCHANGED failures

\* chapter1_data = zin.read("OEBPS/chapter1.xhtml")
duplicate_read ==
    /\ pc = "duplicate_read"
    /\ IF /\ HasName(zin, A_chapter1)
          /\ read(fs[EPUB_DUPLICATE], zin, A_chapter1) # BadZipFile
       THEN /\ chapter1_data' = read(fs[EPUB_DUPLICATE], zin, A_chapter1)
            /\ pc' = "duplicate_open_out"
            /\ UNCHANGED <<fs, outside, base, runs, zf, zin, iter, data, before, prev>>
       ELSE Raise(fs)
    /\ UNCHANGED failures

\* with zipfile.ZipFile(tmp, 'w') as zout
duplicate_open_out ==
    /\ pc = "duplicate_open_out"
    /\ OpenArchive(duplicate_tmp, "duplicate_loop")
    /\ iter' = zin
    /\ UNCHANGED <<outside, base, runs, failures, zin, data, chapter1_data, before, prev>>

\* zout.writestr(item, zin.read(item.filename))
duplicate_copy ==
    /\ pc = "duplicate_loop"
    /\ iter # <<>>
    /\ IF read(fs[EPUB_DUPLICATE], zin, Head(iter).filename) # BadZipFile
       THEN /\ WriteStr(duplicate_tmp, Head(iter),
                        read(fs[EPUB_DUPLICATE], zin, Head(iter).filename))
            /\ iter' = Tail(iter)
            /\ UNCHANGED <<outside, base, pc, runs, zin, data, chapter1_data, before, prev>>
       ELSE Raise(Closed(duplicate_tmp))
    /\ UNCHANGED failures

\* zout.writestr(dup, chapter1_data)
duplicate_variant ==
    /\ pc = "duplicate_loop"
    /\ iter = <<>>
    /\ WriteStr(duplicate_tmp, dup, chapter1_data)
    /\ pc' = "duplicate_close_out"
    /\ UNCHANGED <<outside, base, runs, failures, zin, iter, data, chapter1_data, before, prev>>

\* the end of 'with ... as zout'
duplicate_close_out ==
    /\ pc = "duplicate_close_out"
    /\ CloseStep(duplicate_tmp, "duplicate_close_in")
    /\ UNCHANGED <<outside, base, runs, failures, zin, iter, data, chapter1_data, before, prev>>

\* the end of 'with ... as zin'
duplicate_close_in ==
    /\ pc = "duplicate_close_in"
    /\ zin' = <<>>
    /\ chapter1_data' = <<>>
    /\ pc' = "duplicate_replace"
    /\ UNCHANGED <<fs, outside, base, runs, failures, zf, iter, data, before, prev>>

\* os.replace(tmp, epub)
duplicate_replace ==
    /\ pc = "duplicate_replace"
    /\ fs' = [fs EXCEPT ![EPUB_DUPLICATE] = fs[TMP_DUPLICATE], ![TMP_DUPLICATE] = NoFile]
    /\ pc' = "done"
    /\ UNCHANGED <<outside, base, runs, failures, zf, zin, iter, data, chapter1_data, before, prev>>

build_manifest_duplicate_item_same_resource ==
    \/ duplicate_open_in
    \/ duplicate_read
    \/ duplicate_open_out
    \/ duplicate_copy
    \/ duplicate_variant
    \/ duplicate_close_out
    \/ duplicate_close_in
    \/ duplicate_replace

(***************************************************************************)
(* An I/O error (permission, disk space) in the statement the script is    *)
(* at: the exception propagates; a ZipFile that is open for writing is     *)
(* closed by its with block on the way out.                                *)
(***************************************************************************)
\* the archive that is open for writing at pc; "" when none is
OpenForWriting ==
    IF pc \in {"not_first_loop"} THEN OUT_NOT_FIRST
    ELSE IF pc \in {"compressed_mimetype", "compressed_loop"} THEN OUT_COMPRESSED
    ELSE IF pc \in {"extra_field_mimetype", "extra_field_loop"} THEN TMP_EXTRA_FIELD
    ELSE IF pc \in {"duplicate_loop"} THEN duplicate_tmp
    ELSE ""

\* the statements that do no I/O
NoIO == {"idle", "done", "aborted", "extra_field_assert", "extra_field_patch",
         "duplicate_close_in"}

IOError ==
    /\ pc \notin NoIO
    /\ failures < MaxFailures
    /\ failures' = failures + 1
    /\ IF OpenForWriting # "" THEN Raise(Closed(OpenForWriting)) ELSE Raise(fs)

Next ==
    \/ main
    \/ build_mimetype_not_first
    \/ build_mimetype_compressed
    \/ build_mimetype_extra_field
    \/ build_manifest_duplicate_item_same_resource
    \/ IOError

Spec == Init /\ [][Next]_vars

(***************************************************************************)
(* The splice of build_mimetype_extra_field (lines 61-93) on its own: the  *)
(* file at tmp is any of the buffers below, archives and other bytes.      *)
(***************************************************************************)
\* a normal epub whose mimetype entry already carries an extra field
BuildEpubExtra(tree, extra) ==
    LET zinfo == [FromFile(N_mimetype, ZIP_STORED) EXCEPT !.extra = extra]
        first == WriteEntry(<<>>, zinfo, tree[P_mimetype])
        all == BuildEntries(tree, collect_files(tree, {N_mimetype}), first,
                            <<Written(<<>>, zinfo, tree[P_mimetype])>>)
    IN  CloseArchive(all[1], all[2])

\* buf with its first byte replaced by b
Corrupt(buf, b) == <<b>> \o Tail(buf)

\* an extra field record: tag 0x0001, length 1, one byte
OldExtra == LE2(1) \o LE2(1) \o <<7>>

\* an extra field that is no sequence of records: a header cut short
CutExtra == <<1, 0, 1>>

SpliceInputs ==
    LET trees == { t \in BaseTrees : P_mimetype \in DOMAIN t }
    IN  { BuildEpub(t) : t \in trees }
        \cup { BuildEpubExtra(t, OldExtra) : t \in trees }
        \cup { BuildEpubExtra(t, CutExtra) : t \in trees }
        \cup { Corrupt(BuildEpub(t), 0) : t \in trees }
        \cup { <<>>, stringFileHeader, SubSeq(BuildEpub(Tree({P_mimetype}, 0)), 1, 29) }

InitSplice ==
    /\ NoExpected
    /\ NoFixtures
    /\ scandir \in ScanOrders
    /\ exclude = {N_mimetype}
    /\ yielded = <<>>
    /\ base \in { Tree({P_mimetype}, 0) }
    /\ \E buf \in SpliceInputs, old \in {NoFile, BuildEpub(Tree({P_mimetype}, 0))} :
           fs = [p \in Paths |-> IF p = TMP_EXTRA_FIELD THEN buf
                                 ELSE IF p = OUT_EXTRA_FIELD THEN old
                                 ELSE NoFile]
    /\ pc = "extra_field_read"
    /\ runs = 1
    /\ failures = 0
    /\ zf = <<>>
    /\ zin = <<>>
    /\ iter = <<>>
    /\ data = <<>>
    /\ chapter1_data = <<>>
    /\ before = fs
    /\ prev = [p \in Paths |-> NoFile]

NextSplice ==
    \/ extra_field_splice
    \/ IOError

SpecSplice == InitSplice /\ [][NextSplice]_vars

(***************************************************************************)
(* collect_files on its own: any of the trees below, listed by the file    *)
(* system in any order, walked once per build.                             *)
(***************************************************************************)
\* the names of the paths below
WalkNames == {N_mimetype, N_META_INF, N_OEBPS, N_chapter1_xhtml, N_Chapter1_xhtml}

\* files at the root, in two sibling directories and in a nested directory
WalkPaths ==
    {P_mimetype, <<N_Chapter1_xhtml>>, P_chapter1, P_Chapter1,
     <<N_META_INF, N_chapter1_xhtml>>, <<N_OEBPS, N_META_INF, N_chapter1_xhtml>>}

\* the trees that hold all of these paths or all but one
WalkTrees ==
    { Tree(S, 0) : S \in { T \in SUBSET WalkPaths : Cardinality(T) >= Cardinality(WalkPaths) - 1 } }

\* every order in which the file system may list the names
WalkOrders ==
    { o \in [1..Cardinality(WalkNames) -> WalkNames] :
        \A i, j \in 1..Cardinality(WalkNames) : i # j => o[i] # o[j] }

InitWalk ==
    /\ NoExpected
    /\ NoFixtures
    /\ scandir \in WalkOrders
    /\ exclude \in {{}, {N_mimetype}}
    /\ yielded = <<>>
    /\ base \in WalkTrees
    /\ fs = [p \in Paths |-> NoFile]
    /\ pc = "collect_files"
    /\ runs = 0
    /\ failures = 0
    /\ zf = <<>>
    /\ zin = <<>>
    /\ iter = <<>>
    /\ data = <<>>
    /\ chapter1_data = <<>>
    /\ before = fs
    /\ prev = [p \in Paths |-> NoFile]

\* list(collect_files(BASE, exclude)) of one build; the next build finds the
\* names listed in any order
collect ==
    /\ pc = "collect_files"
    /\ runs < MaxRuns
    /\ runs' = runs + 1
    /\ yielded' = Append(yielded, collect_files(base, exclude))
    /\ scandir' \in WalkOrders
    /\ UNCHANGED <<fs, base, pc, failures, zf, zin, iter, data, chapter1_data, before, prev,
                   exclude, expectedState, fixturesState>>

NextWalk ==
    \/ collect

SpecWalk == InitWalk /\ [][NextWalk]_vars

(***************************************************************************)
(* scripts/create-level2-expected.py, create-level3-expected.py and        *)
(* create-level4-expected.py: the expectation records written from the     *)
(* check tables and from the reference output of epubcheck.  A file below  *)
(* reference/ or expected/ is the JSON document it holds; its path         *)
(* <dir>/<category>/<name>.json is the pair (category, name).              *)
(***************************************************************************)
\* most ERROR messages in a reference document
MaxErrors == 2
\* number of entries of the check table of a run
MaxFixtures == 2

\* None (JSON null) where a count may stand; no count equals it
None == -1

\* d.get(key, default)
Get(d, key, default) == IF key \in DOMAIN d THEN d[key] ELSE default

\* d[key] = value; also: the file at path 'key' written with 'value'
Put(d, key, value) == [k \in DOMAIN d \cup {key} |-> IF k = key THEN value ELSE d[k]]

\* entries of LEVEL2_CHECKS, one of each kind (a null string is "None")
LEVEL2_CHECKS ==
    ("opf-malformed-xml" :>
        [check_id |-> "OPF-011", severity |-> "FATAL", epubcheck_id |-> "RSC-016",
         message_pattern |-> "XML document structures must start and end", note |-> ""])
    @@ ("opf-missing-metadata" :>
        [check_id |-> "OPF-012", severity |-> "ERROR", epubcheck_id |-> "RSC-005",
         message_pattern |-> "missing required element.*metadata",
         note |-> "Cascading errors from missing metadata element"])
    @@ ("content-no-title" :>
        [check_id |-> "HTM-002", severity |-> "WARNING", epubcheck_id |-> "RSC-017",
         message_pattern |-> "title",
         note |-> "epubcheck reports this as a WARNING, not an ERROR"])
    @@ ("content-empty-href" :>
        [check_id |-> "HTM-003", severity |-> "ERROR", epubcheck_id |-> "None",
         message_pattern |-> "None",
         note |-> "epubcheck 5.3.0 does not flag empty href attributes. Spec requires non-empty href.",
         valid_override |-> TRUE])

\* entries of LEVEL3_CHECKS, one of each kind
LEVEL3_CHECKS ==
    ("css-syntax-error" :>
        [check_id |-> "CSS-001", epubcheck_id |-> "CSS-008", severity |-> "ERROR",
         message_pattern |-> "error occurred while parsing the CSS",
         error_count_min |-> 1])
    @@ ("css-invalid-property" :>
        [check_id |-> "CSS-002", valid_override |-> TRUE,
         note |-> "epubcheck 5.3.0 does not flag unknown CSS property names"])
    @@ ("css-font-face-missing-file" :>
        [check_id |-> "CSS-006", epubcheck_id |-> "RSC-007", severity |-> "ERROR",
         message_pattern |-> "could not be found"])
    @@ ("content-html-entity" :>
        [check_id |-> "HTM-017", epubcheck_id |-> "RSC-016", severity |-> "FATAL",
         message_pattern |-> "entity.*was referenced.*not declared"])

\* entries of LEVEL4_CHECKS, one of each kind
LEVEL4_CHECKS ==
    ("opf-ppd-invalid" :>
        [check_id |-> "OPF-035", epubcheck_id |-> "RSC-005", severity |-> "ERROR",
         message_pattern |-> "page-progression-direction.*must be equal to"])
    @@ ("opf-dc-date-invalid" :>
        [check_id |-> "OPF-036", epubcheck_id |-> "OPF-053", severity |-> "WARNING",
         message_pattern |-> "Date value.*does not follow recommended syntax"])
    @@ ("opf-meta-refines-bad-target" :>
        [check_id |-> "OPF-037", epubcheck_id |-> "RSC-005", severity |-> "ERROR",
         message_pattern |-> "refines missing target id", error_count_min |-> 1])
    @@ ("opf-epub3-guide" :>
        [check_id |-> "OPF-039", valid_override |-> TRUE,
         note |-> "epubcheck 5.3.0 does not flag guide element in EPUB 3 packages"])
    @@ ("content-svg-malformed" :>
        [check_id |-> "HTM-029", epubcheck_id |-> "RSC-016", severity |-> "FATAL",
         message_pattern |-> "Attribute name.*associated with an element"])

\* LEVEL1_FIXTURES of create-level2-expected.py
LEVEL1_FIXTURES ==
    { "content-broken-image-ref", "content-broken-internal-link",
      "content-malformed-xhtml", "manifest-file-not-in-zip", "nav-missing", "nav-no-toc",
      "ocf-container-malformed-xml", "ocf-container-missing", "ocf-container-no-rootfile",
      "ocf-container-rootfile-not-found", "ocf-mimetype-compressed",
      "ocf-mimetype-extra-field", "ocf-mimetype-extra-whitespace", "ocf-mimetype-missing",
      "ocf-mimetype-not-first", "ocf-mimetype-wrong-content", "opf-duplicate-manifest-id",
      "opf-manifest-href-missing", "opf-manifest-media-type-missing",
      "opf-missing-dc-identifier", "opf-missing-dc-language", "opf-missing-dc-title",
      "opf-missing-dcterms-modified", "opf-missing-unique-identifier", "spine-bad-idref",
      "spine-empty", "zip-entry-not-in-manifest" }

\* the keys of LEVEL2_CHECKS, all of them
LEVEL2_KEYS ==
    { "opf-malformed-xml", "opf-missing-metadata", "opf-missing-manifest",
      "opf-missing-spine", "opf-wrong-version", "opf-duplicate-manifest-href",
      "opf-duplicate-spine-idref", "opf-manifest-item-no-id",
      "opf-dcterms-modified-invalid", "opf-dc-language-invalid",
      "opf-fallback-ref-missing", "opf-fallback-cycle", "opf-spine-non-content-doc",
      "opf-media-type-mismatch", "opf-cover-image-not-image", "opf-multiple-nav",
      "content-fragment-id-missing", "content-remote-resource",
      "content-css-file-missing", "content-resource-not-in-manifest",
      "content-font-file-missing", "content-remote-stylesheet", "content-no-title",
      "content-empty-href", "content-obsolete-element", "content-scripted-undeclared",
      "content-svg-undeclared", "content-mathml-undeclared", "content-fxl-no-viewport",
      "content-fxl-invalid-viewport", "content-base-element", "content-wrong-doctype",
      "content-wrong-namespace", "nav-toc-broken-link", "nav-toc-empty-link",
      "nav-multiple-toc", "nav-landmarks-broken", "nav-page-list-broken",
      "epub2-ncx-missing", "epub2-ncx-malformed", "epub2-ncx-no-navmap",
      "epub2-spine-no-toc" }

\* the keys of LEVEL3_CHECKS, all of them
LEVEL3_KEYS ==
    { "css-syntax-error", "css-invalid-property", "css-font-face-no-src",
      "css-font-face-remote", "css-import", "css-font-face-missing-file",
      "css-background-image-missing", "css-resource-not-in-manifest",
      "fxl-rendition-layout-invalid", "fxl-rendition-orientation-invalid",
      "fxl-rendition-spread-invalid", "fxl-spine-layout-invalid",
      "fxl-spine-spread-invalid", "image-media-type-wrong", "image-non-core-media-type",
      "image-corrupted", "svg-wrong-media-type", "audio-non-core-media-type",
      "content-non-utf8-encoding", "content-utf16-encoding", "opf-no-unique-id-attr",
      "opf-duplicate-dcterms-modified", "opf-manifest-invalid-property",
      "opf-manifest-href-empty", "opf-dc-identifier-empty", "opf-dc-title-empty",
      "opf-manifest-href-fragment", "opf-package-dir-invalid",
      "content-epub-type-invalid", "content-duplicate-ids", "content-html-entity",
      "content-multiple-body", "content-no-html-element",
      "content-processing-instruction", "content-style-position-absolute",
      "content-object-no-fallback", "content-link-parent-dir", "nav-toc-no-ol",
      "nav-hidden-attribute", "nav-landmarks-invalid-type", "nav-malformed-xhtml",
      "epub2-with-nav-property", "epub2-with-dcterms-modified",
      "epub2-ncx-navpoint-no-content", "epub2-ncx-broken-content-src",
      "epub2-guide-broken-href", "epub2-ncx-uid-mismatch", "epub2-ncx-duplicate-ids",
      "manifest-href-bad-encoding", "manifest-path-traversal",
      "manifest-duplicate-item-same-resource", "ocf-metainf-extra-files",
      "ocf-container-multiple-rootfiles", "manifest-absolute-path",
      "ocf-container-wrong-rootfile-mediatype" }

\* the keys of LEVEL4_CHECKS, all of them
LEVEL4_KEYS ==
    { "opf-ppd-invalid", "opf-dc-date-invalid", "opf-meta-refines-bad-target",
      "opf-spine-linear-invalid", "opf-epub3-guide", "opf-uuid-invalid",
      "opf-spine-all-nonlinear", "opf-rendition-flow-invalid", "opf-prefix-invalid",
      "opf-media-overlay-bad-ref", "content-no-head", "content-embed-element",
      "content-lang-mismatch", "content-video-poster-missing", "content-audio-missing",
      "content-svg-malformed", "content-img-empty-src", "content-ssml-invalid-ns",
      "content-style-syntax-error", "content-rdf-element", "acc-no-a11y-metadata",
      "acc-img-no-alt", "acc-no-lang", "acc-dc-source-no-page-list", "acc-no-accessmode",
      "acc-no-access-sufficient", "acc-no-summary", "acc-no-feature", "acc-no-hazard",
      "acc-no-landmarks" }

\* the fixture names of the three tables in sorted order
SortedNames ==
    <<"content-empty-href", "content-html-entity", "content-no-title",
      "content-svg-malformed", "css-font-face-missing-file", "css-invalid-property",
      "css-syntax-error", "opf-dc-date-invalid", "opf-epub3-guide", "opf-malformed-xml",
      "opf-meta-refines-bad-target", "opf-missing-metadata", "opf-ppd-invalid">>

\* [name for name, check_info in sorted(table.items())]
sorted_items(table) == SelectSeq(SortedNames, LAMBDA n : n \in DOMAIN table)

\* the "messages" list of a reference document with f FATAL, e ERROR,
\* w WARNING and u USAGE messages
Messages(f, e, w, u) ==
    [i \in 1..(f + e + w + u) |->
        [severity |-> IF i <= f THEN "FATAL" ELSE IF i <= f + e THEN "ERROR"
                      ELSE IF i <= f + e + w THEN "WARNING" ELSE "USAGE"]]

\* the reference documents: the epubcheck output for a fixture, with its
\* message list and the counters of its "checker" object
Docs ==
    { [checker |-> [nFatal |-> t[1], nError |-> t[2], nWarning |-> t[3], nUsage |-> t[4]],
       messages |-> Messages(t[1], t[2], t[3], t[4])] :
      t \in { u \in (0..1) \X (0..MaxErrors) \X (0..1) \X (0..1) : u[1] + u[3] <= 1 } }

\* every message counted, whatever its severity
Count_bug(messages, severity) == Len(messages)

\* sum(1 for m in messages if m["severity"] == severity)
Count(messages, severity) ==
    Cardinality({ i \in 1..Len(messages) : messages[i].severity = severity })

\* os.path.exists(ref_path)
exists(category, name) == <<category, name>> \in DOMAIN reference

\* read_reference(category, name) of level 2, for a reference that exists
read_reference(category, name) ==
    LET messages == Get(reference[<<category, name>>], "messages", <<>>)
    IN  [messages |-> messages,
         fatal_count |-> Count(messages, "FATAL"),
         error_count |-> Count(messages, "ERROR"),
         warning_count |-> Count(messages, "WARNING")]

\* the record without its error_count_min key
create_valid_expected_bug(name) ==
    [fixture |-> <<"valid", name>>, valid |-> TRUE, messages |-> <<>>,
     fatal_count |-> 0, error_count |-> 0, warning_count |-> 0]

\* create_valid_expected(name), the same record in the three scripts
create_valid_expected(name) ==
    [fixture |-> <<"valid", name>>, valid |-> TRUE, messages |-> <<>>,
     fatal_count |-> 0, error_count |-> 0, error_count_min |-> None,
     warning_count |-> 0]

\* create_expected(fixture_name, check_info, ref_data) of level 2
create_expected2(fixture_name, check_info, ref_data) ==
    IF Get(check_info, "valid_override", FALSE)
    THEN [fixture |-> <<"invalid", fixture_name>>, valid |-> TRUE, messages |-> <<>>,
          fatal_count |-> 0, error_count |-> 0, error_count_min |-> None,
          warning_count |-> 0, note |-> check_info.note]
    ELSE LET severity == check_info.severity
             messages == <<[severity |-> severity,
                            check_id |-> check_info.check_id,
                            epubcheck_id |-> check_info.epubcheck_id,
                            message_pattern |-> check_info.message_pattern,
                            note |-> Get(check_info, "note", "")]>>
             fatal_count == ref_data.fatal_count
             error_count == ref_data.error_count
             warning_count == ref_data.warning_count
             is_valid == fatal_count = 0 /\ error_count = 0
             error_count_min == IF error_count > 1 /\ severity = "ERROR" THEN 1 ELSE None
         IN  [fixture |-> <<"invalid", fixture_name>>, valid |-> is_valid,
              messages |-> messages, fatal_count |-> fatal_count,
              error_count |-> error_count, error_count_min |-> error_count_min,
              warning_count |-> warning_count]

\* the 'expected' dict of create_expected(fixture_name, check_info, category)
\* of level 3
create_expected3(fixture_name, check_info, category) ==
    IF Get(check_info, "valid_override", FALSE)
    THEN [fixture |-> <<category, fixture_name>>, valid |-> TRUE, messages |-> <<>>,
          fatal_count |-> 0, error_count |-> 0, error_count_min |-> None,
          warning_count |-> 0, note |-> Get(check_info, "note", "")]
    ELSE LET severity == check_info.severity
             found == exists(category, fixture_name)
             ref == reference[<<category, fixture_name>>]
             fatal_count == IF found /\ severity = "FATAL" THEN ref.checker.nFatal
                            ELSE IF severity = "FATAL" THEN 1 ELSE 0
             error_count == IF found THEN ref.checker.nError
                            ELSE IF severity = "FATAL" THEN 0 ELSE 1
             warning_count == IF found THEN ref.checker.nWarning ELSE 0
             error_count_min == IF found /\ Get(check_info, "error_count_min", 0) # 0
                                THEN check_info.error_count_min ELSE None
             msg == [severity |-> severity,
                     check_id |-> check_info.check_id,
                     epubcheck_id |-> check_info.epubcheck_id,
                     message_pattern |-> check_info.message_pattern,
                     note |-> ""]
         IN  [fixture |-> <<category, fixture_name>>, valid |-> FALSE,
              messages |-> <<msg>>, fatal_count |-> fatal_count,
              error_count |-> error_count, error_count_min |-> error_count_min,
              warning_count |-> warning_count]

\* the record of a valid_override fixture with the warnings of the reference
create_expected4_bug(fixture_name, check_info, category) ==
    [fixture |-> <<category, fixture_name>>, valid |-> TRUE, messages |-> <<>>,
     fatal_count |-> 0, error_count |-> 0, error_count_min |-> None,
     warning_count |-> IF exists(category, fixture_name)
                       THEN reference[<<category, fixture_name>>].checker.nWarning ELSE 0,
     note |-> Get(check_info, "note", "")]

\* the 'expected' dict of create_expected(fixture_name, check_info, category)
\* of level 4
create_expected4(fixture_name, check_info, category) ==
    IF Get(check_info, "valid_override", FALSE)
    THEN [fixture |-> <<category, fixture_name>>, valid |-> TRUE, messages |-> <<>>,
          fatal_count |-> 0, error_count |-> 0, error_count_min |-> None,
          warning_count |-> 0, note |-> Get(check_info, "note", "")]
    ELSE LET severity == check_info.severity
             found == exists(category, fixture_name)
             ref == reference[<<category, fixture_name>>]
             fatal_count == IF found /\ severity = "FATAL" THEN ref.checker.nFatal
                            ELSE IF severity = "FATAL" THEN 1 ELSE 0
             error_count == IF found THEN ref.checker.nError
                            ELSE IF severity \in {"FATAL", "WARNING", "USAGE"} THEN 0 ELSE 1
             warning_first == IF found /\ severity = "WARNING" THEN ref.checker.nWarning
                              ELSE IF severity = "WARNING" THEN 1 ELSE 0
             warning_count == IF found /\ warning_first = 0 /\ severity # "WARNING"
                              THEN ref.checker.nWarning ELSE warning_first
             error_count_min == IF found /\ Get(check_info, "error_count_min", 0) # 0
                                THEN check_info.error_count_min ELSE None
             is_valid == fatal_count = 0 /\ error_count = 0
             msg == [severity |-> severity,
                     check_id |-> check_info.check_id,
                     epubcheck_id |-> check_info.epubcheck_id,
                     message_pattern |-> check_info.message_pattern,
                     note |-> ""]
         IN  [fixture |-> <<category, fixture_name>>, valid |-> is_valid,
              messages |-> <<msg>>, fatal_count |-> fatal_count,
              error_count |-> error_count, error_count_min |-> error_count_min,
              warning_count |-> warning_count]

\* every script with the table of level 2
Table_bug(s) == LEVEL2_CHECKS

\* the check table of the script that starts at statement s
Table(s) ==
    IF s = "level2_main" THEN LEVEL2_CHECKS
    ELSE IF s = "level3_main" THEN LEVEL3_CHECKS
    ELSE LEVEL4_CHECKS

InitExpected ==
    /\ NoBuild
    /\ NoFixtures
    /\ pc \in {"level2_main", "level3_main", "level4_main"}
    /\ \E S \in SUBSET DOMAIN Table(pc) :
           /\ Cardinality(S) = MaxFixtures
           /\ checks = [n \in S |-> Table(pc)[n]]
    /\ \E R \in SUBSET DOMAIN checks :
           reference \in [{ <<"invalid", n>> : n \in R } -> Docs]
    /\ expected = <<>>
    /\ console = <<>>
    /\ created = 0
    /\ skipped = 0
    /\ ran = <<pc>>
    /\ written = <<>>
    /\ iter = <<>>

\* main of level 2 up to its loop: the record of valid/minimal-epub2
level2_main ==
    /\ pc = "level2_main"
    /\ expected' = Put(expected, <<"valid", "minimal-epub2">>,
                       create_valid_expected("minimal-epub2"))
    /\ written' = Append(written, <<"valid", "minimal-epub2">>)
    /\ console' = Append(console, <<"Created", "valid", "minimal-epub2">>)
    /\ created' = 0
    /\ skipped' = 0
    /\ iter' = sorted_items(checks)
    /\ pc' = "level2_loop"
    /\ UNCHANGED <<buildState, walkState, fixturesState, checks, reference, ran>>

\* one turn of the loop of main of level 2
level2_fixture ==
    /\ pc = "level2_loop"
    /\ iter # <<>>
    /\ IF ~exists("invalid", Head(iter))
       THEN /\ console' = Append(console, <<"SKIP", "invalid", Head(iter)>>)
            /\ skipped' = skipped + 1
            /\ UNCHANGED <<expected, written, created>>
       ELSE /\ expected' = Put(expected, <<"invalid", Head(iter)>>,
                               create_expected2(Head(iter), checks[Head(iter)],
                                                read_reference("invalid", Head(iter))))
            /\ written' = Append(written, <<"invalid", Head(iter)>>)
            /\ console' = Append(console, <<"Created", "invalid", Head(iter)>>)
            /\ created' = created + 1
            /\ UNCHANGED skipped
    /\ iter' = Tail(iter)
    /\ UNCHANGED <<buildState, walkState, fixturesState, checks, reference, ran, pc>>

\* the summary with the size of the table as the number created
level2_done_bug ==
    /\ pc = "level2_loop"
    /\ iter = <<>>
    /\ console' = Append(console, <<"Done", Cardinality(DOMAIN checks), skipped>>)
    /\ pc' = "done"
    /\ UNCHANGED <<buildState, walkState, fixturesState, checks, reference, expected,
                   created, skipped, ran, written, iter>>

\* print(f"\nDone: {created} created, {skipped} skipped")
level2_done ==
    /\ pc = "level2_loop"
    /\ iter = <<>>
    /\ console' = Append(console, <<"Done", created, skipped>>)
    /\ pc' = "done"
    /\ UNCHANGED <<buildState, walkState, fixturesState, checks, reference, expected,
                   created, skipped, ran, written, iter>>

\* the start of the loop of level 3
level3_main ==
    /\ pc = "level3_main"
    /\ iter' = sorted_items(checks)
    /\ pc' = "level3_loop"
    /\ UNCHANGED <<buildState, walkState, fixturesState, expectedState>>

\* create_expected(fixture_name, check_info) of level 3
level3_create_expected ==
    /\ pc = "level3_loop"
    /\ iter # <<>>
    /\ expected' = Put(expected, <<"invalid", Head(iter)>>,
                       create_expected3(Head(iter), checks[Head(iter)], "invalid"))
    /\ written' = Append(written, <<"invalid", Head(iter)>>)
    /\ console' = Append(console, <<"Created", "invalid", Head(iter)>>)
    /\ iter' = Tail(iter)
    /\ UNCHANGED <<buildState, walkState, fixturesState, checks, reference, created,
                   skipped, ran, pc>>

\* create_valid_expected("fxl-epub3"); create_valid_expected("epub3-with-css")
level3_create_valid_expected ==
    /\ pc \in {"level3_loop", "level3_valid"}
    /\ iter = <<>>
    /\ LET name == IF pc = "level3_loop" THEN "fxl-epub3" ELSE "epub3-with-css"
       IN  /\ expected' = Put(expected, <<"valid", name>>, create_valid_expected(name))
           /\ written' = Append(written, <<"valid", name>>)
           /\ console' = Append(console, <<"Created", "valid", name>>)
    /\ pc' = IF pc = "level3_loop" THEN "level3_valid" ELSE "level3_done"
    /\ UNCHANGED <<buildState, walkState, fixturesState, checks, reference, created,
                   skipped, ran, iter>>

\* print(f"\nDone! Created {len(LEVEL3_CHECKS)} invalid + 2 valid expected files.")
level3_done ==
    /\ pc = "level3_done"
    /\ console' = Append(console, <<"Done", Cardinality(DOMAIN checks), 2>>)
    /\ pc' = "done"
    /\ UNCHANGED <<buildState, walkState, fixturesState, checks, reference, expected,
                   created, skipped, ran, written, iter>>

\* the start of the loop of level 4
level4_main ==
    /\ pc = "level4_main"
    /\ iter' = sorted_items(checks)
    /\ pc' = "level4_loop"
    /\ UNCHANGED <<buildState, walkState, fixturesState, expectedState>>

\* create_expected(fixture_name, check_info) of level 4
level4_create_expected ==
    /\ pc = "level4_loop"
    /\ iter # <<>>
    /\ expected' = Put(expected, <<"invalid", Head(iter)>>,
                       create_expected4(Head(iter), checks[Head(iter)], "invalid"))
    /\ written' = Append(written, <<"invalid", Head(iter)>>)
    /\ console' = Append(console, <<"Created", "invalid", Head(iter)>>)
    /\ iter' = Tail(iter)
    /\ UNCHANGED <<buildState, walkState, fixturesState, checks, reference, created,
                   skipped, ran, pc>>

\* print(f"\nDone! Created {len(LEVEL4_CHECKS)} expected files.")
level4_done ==
    /\ pc = "level4_loop"
    /\ iter = <<>>
    /\ console' = Append(console, <<"Done", Cardinality(DOMAIN checks), 0>>)
    /\ pc' = "done"
    /\ UNCHANGED <<buildState, walkState, fixturesState, checks, reference, expected,
                   created, skipped, ran, written, iter>>

NextExpected ==
    \/ level2_main
    \/ level2_fixture
    \/ level2_done
    \/ level3_main
    \/ level3_create_expected
    \/ level3_create_valid_expected
    \/ level3_done
    \/ level4_main
    \/ level4_create_expected
    \/ level4_done

SpecExpected == InitExpected /\ [][NextExpected]_vars

(***************************************************************************)
(* The three expectation generators run one after the other, in any order, *)
(* over the same reference/ and expected/ directories.                     *)
(***************************************************************************)
\* the fixtures that may have a reference document when the suite runs
SuiteNames ==
    {"opf-malformed-xml", "opf-missing-metadata", "css-syntax-error", "opf-dc-date-invalid"}

InitSuite ==
    /\ NoBuild
    /\ NoFixtures
    /\ pc = "done"
    /\ checks = <<>>
    /\ \E R \in SUBSET SuiteNames, d \in Docs :
           reference = [p \in { <<"invalid", n>> : n \in R } |-> d]
    /\ expected = <<>>
    /\ console = <<>>
    /\ created = 0
    /\ skipped = 0
    /\ ran = <<>>
    /\ written = <<>>
    /\ iter = <<>>

\* python3 scripts/create-level<N>-expected.py, for a script not yet run
run_generator ==
    /\ pc = "done"
    /\ \E s \in {"level2_main", "level3_main", "level4_main"} :
           /\ \A i \in 1..Len(ran) : ran[i] # s
           /\ pc' = s
           /\ ran' = Append(ran, s)
           /\ checks' = Table(s)
    /\ console' = <<>>
    /\ UNCHANGED <<buildState, walkState, fixturesState, reference, expected, created,
                   skipped, written, iter>>

NextSuite ==
    \/ run_generator
    \/ level2_main
    \/ level2_fixture
    \/ level2_done
    \/ level3_main
    \/ level3_create_expected
    \/ level3_create_valid_expected
    \/ level3_done
    \/ level4_main
    \/ level4_create_expected
    \/ level4_done

SpecSuite == InitSuite /\ [][NextSuite]_vars

(***************************************************************************)
(* scripts/create-level2-fixtures.py, create-level3-fixtures.py and        *)
(* create-level4-fixtures.py: create_fixture and create_valid_fixture.  A  *)
(* directory below fixtures/src is the pair (category, name); its tree     *)
(* maps each relative path to the bytes of the file.                       *)
(***************************************************************************)
\* number of create_fixture / create_valid_fixture calls in one behaviour
MaxCalls == 1

\* a str (a sequence of code points) and a bytes object
Str(text) == <<"str", text>>
Bytes(b) == <<"bytes", b>>

RECURSIVE encode(_)
\* the bytes that open(path, 'w', newline='') writes for text: UTF-8, no
\* newline translation (code points below 0x800)
encode(text) ==
    IF text = <<>> THEN <<>>
    ELSE (IF Head(text) < 128 THEN <<Head(text)>>
          ELSE <<192 + (Head(text) \div 64), 128 + (Head(text) % 64)>>)
         \o encode(Tail(text))

\* the file written for content: 'wb' for bytes, 'w' for str
FileBytes(content) ==
    IF content[1] = "bytes" THEN content[2] ELSE encode(content[2])

\* a directory that does not exist, or an empty dict
EmptyTree == [p \in {} |-> <<>>]

\* the 'defaults' dict of create_fixture in level 2
DEFAULTS2 ==
    ("mimetype" :> Str(MimetypeText))
    @@ ("META-INF/container.xml" :> Str(XmlText))
    @@ ("OEBPS/content.opf" :> Str(XmlText))
    @@ ("OEBPS/nav.xhtml" :> Str(XmlText))
    @@ ("OEBPS/chapter1.xhtml" :> Str(XmlText))

\* DEFAULTS of levels 3 and 4
DEFAULTS ==
    ("mimetype" :> Str(MimetypeText))
    @@ ("META-INF/container.xml" :> Str(XmlText))
    @@ ("OEBPS/content.opf" :> Str(XmlText))
    @@ ("OEBPS/nav.xhtml" :> Str(XmlText))
    @@ ("OEBPS/chapter1.xhtml" :> Str(XmlText))

\* EPUB2_DEFAULTS of levels 3 and 4
EPUB2_DEFAULTS ==
    ("mimetype" :> Str(MimetypeText))
    @@ ("META-INF/container.xml" :> Str(XmlText))
    @@ ("OEBPS/content.opf" :> Str(XmlText))
    @@ ("OEBPS/toc.ncx" :> Str(XmlText))
    @@ ("OEBPS/chapter1.xhtml" :> Str(XmlText))

\* defaults = DEFAULTS if base == "epub3" else EPUB2_DEFAULTS
Defaults(level, b) ==
    IF level = 2 THEN DEFAULTS2
    ELSE IF b = "epub3" THEN DEFAULTS ELSE EPUB2_DEFAULTS

\* The 'files' arguments: none; a default overridden; a new text file that
\* is not ASCII; mimetype overridden and a new binary file; the whole
\* tree of valid/minimal-epub2.
FilesMaps ==
    { EmptyTree,
      "OEBPS/content.opf" :> Str(<<60, 112>>),
      "OEBPS/style.css" :> Str(<<98, 233>>),
      ("mimetype" :> Str(<<>>)) @@ ("OEBPS/cover.png" :> Bytes(<<137, 80>>)),
      [p \in DOMAIN EPUB2_DEFAULTS |-> Str(<<60>>)] }

\* the paths in the order of the dicts: the defaults, then the new keys
KeyOrder ==
    <<"mimetype", "META-INF/container.xml", "OEBPS/content.opf", "OEBPS/nav.xhtml",
      "OEBPS/toc.ncx", "OEBPS/chapter1.xhtml", "OEBPS/style.css", "OEBPS/cover.png">>

\* merged = dict(defaults); merged.update(files); create_valid_fixture of
\* level 2 goes through 'files' alone
merged(c) ==
    IF c.fn = "create_valid_fixture" /\ c.level = 2 THEN c.files
    ELSE c.files @@ Defaults(c.level, c.base)

\* the directory left as it is
rmtree_bug(src, dir) == src

\* if os.path.exists(fixture_dir): shutil.rmtree(fixture_dir)
rmtree(src, dir) == [src EXCEPT ![dir] = EmptyTree]

\* the directory that is created, another one of each category, and what
\* an earlier run may have left in them
FixtureNames == {"css-syntax-error"}
FixtureDirs ==
    {<<"invalid", "css-syntax-error">>, <<"valid", "css-syntax-error">>,
     <<"invalid", "css-import">>}
PriorTrees ==
    { EmptyTree, ("mimetype" :> <<120>>) @@ ("OEBPS/old.xhtml" :> <<120>>) }

InitFixtures ==
    /\ NoBuild
    /\ NoExpected
    /\ pc = "fixtures_main"
    /\ iter = <<>>
    /\ fixtures_src \in [FixtureDirs -> PriorTrees]
    /\ call = [fn |-> ""]
    /\ calls = 0
    /\ fixtures_before = fixtures_src

\* the call of fn(name, files, base) up to its loop
Enter(fn, category) ==
    /\ calls < MaxCalls
    /\ calls' = calls + 1
    /\ \E level \in {2, 3, 4}, name \in FixtureNames, files \in FilesMaps,
          b \in {"epub3", "epub2"} :
           LET c == [fn |-> fn, level |-> level, name |-> name, files |-> files,
                     base |-> b, fixture_dir |-> <<category, name>>]
           IN  /\ level = 2 => b = "epub3"
               /\ call' = c
               /\ fixtures_before' = fixtures_src
               /\ fixtures_src' = rmtree(fixtures_src, c.fixture_dir)
               /\ iter' = SelectSeq(KeyOrder, LAMBDA k : k \in DOMAIN merged(c))
    /\ pc' = "fixture_loop"
    /\ UNCHANGED <<buildState, walkState, expectedState>>

create_fixture ==
    /\ pc = "fixtures_main"
    /\ Enter("create_fixture", "invalid")

create_valid_fixture ==
    /\ pc = "fixtures_main"
    /\ Enter("create_valid_fixture", "valid")

\* one turn of the loop: makedirs, open, write
fixture_write ==
    /\ pc = "fixture_loop"
    /\ iter # <<>>
    /\ fixtures_src' =
           [fixtures_src EXCEPT ![call.fixture_dir] =
               Put(@, Head(iter), FileBytes(merged(call)[Head(iter)]))]
    /\ iter' = Tail(iter)
    /\ UNCHANGED <<buildState, walkState, expectedState, pc, call, calls, fixtures_before>>

\* print(f"  Created: {fixture_dir}"); return
fixture_return ==
    /\ pc = "fixture_loop"
    /\ iter = <<>>
    /\ pc' = "fixtures_main"
    /\ UNCHANGED <<buildState, walkState, expectedState, fixturesState, iter>>

NextFixtures ==
    \/ create_fixture
    \/ create_valid_fixture
    \/ fixture_write
    \/ fixture_return

SpecFixtures == InitFixtures /\ [][NextFixtures]_vars

(***************************************************************************)
(* A level from end to end: create-level<N>-fixtures.py makes its calls,   *)
(* then create-level<N>-expected.py writes the records.                    *)
(***************************************************************************)
\* the create_fixture ("invalid") and create_valid_fixture ("valid") calls of
\* create-level2-fixtures.py, in the order in which the script makes them
LEVEL2_CALLS ==
    << <<"invalid", "opf-malformed-xml">>, <<"invalid", "opf-missing-metadata">>,
       <<"invalid", "opf-missing-manifest">>, <<"invalid", "opf-missing-spine">>,
       <<"invalid", "opf-wrong-version">>, <<"invalid", "opf-duplicate-manifest-href">>,
       <<"invalid", "opf-duplicate-spine-idref">>, <<"invalid",
       "opf-manifest-item-no-id">>, <<"invalid", "opf-dcterms-modified-invalid">>,
       <<"invalid", "opf-dc-language-invalid">>, <<"invalid", "opf-fallback-ref-missing">>,
       <<"invalid", "opf-fallback-cycle">>, <<"invalid", "opf-spine-non-content-doc">>,
       <<"invalid", "opf-media-type-mismatch">>, <<"invalid",
       "opf-cover-image-not-image">>, <<"invalid", "opf-multiple-nav">>, <<"invalid",
       "content-fragment-id-missing">>, <<"invalid", "content-remote-resource">>,
       <<"invalid", "content-css-file-missing">>, <<"invalid",
       "content-resource-not-in-manifest">>, <<"invalid", "content-font-file-missing">>,
       <<"invalid", "content-remote-stylesheet">>, <<"invalid", "content-no-title">>,
       <<"invalid", "content-empty-href">>, <<"invalid", "content-obsolete-element">>,
       <<"invalid", "content-scripted-undeclared">>, <<"invalid",
       "content-svg-undeclared">>, <<"invalid", "content-mathml-undeclared">>, <<"invalid",
       "content-fxl-no-viewport">>, <<"invalid", "content-fxl-invalid-viewport">>,
       <<"invalid", "content-base-element">>, <<"invalid", "content-wrong-doctype">>,
       <<"invalid", "content-wrong-namespace">>, <<"invalid", "nav-toc-broken-link">>,
       <<"invalid", "nav-toc-empty-link">>, <<"invalid", "nav-multiple-toc">>, <<"invalid",
       "nav-landmarks-broken">>, <<"invalid", "nav-page-list-broken">>, <<"valid",
       "minimal-epub2">>, <<"invalid", "epub2-ncx-missing">>, <<"invalid",
       "epub2-ncx-malformed">>, <<"invalid", "epub2-ncx-no-navmap">>, <<"invalid",
       "epub2-spine-no-toc">> >>

\* the create_fixture ("invalid") and create_valid_fixture ("valid") calls of
\* create-level3-fixtures.py, in the order in which the script makes them
LEVEL3_CALLS ==
    << <<"invalid", "css-syntax-error">>, <<"invalid", "css-invalid-property">>,
       <<"invalid", "css-font-face-no-src">>, <<"invalid", "css-font-face-remote">>,
       <<"invalid", "css-import">>, <<"invalid", "css-font-face-missing-file">>,
       <<"invalid", "css-background-image-missing">>, <<"invalid",
       "css-resource-not-in-manifest">>, <<"invalid", "fxl-rendition-layout-invalid">>,
       <<"invalid", "fxl-rendition-orientation-invalid">>, <<"invalid",
       "fxl-rendition-spread-invalid">>, <<"invalid", "fxl-spine-layout-invalid">>,
       <<"invalid", "fxl-spine-spread-invalid">>, <<"invalid", "image-media-type-wrong">>,
       <<"invalid", "image-non-core-media-type">>, <<"invalid", "image-corrupted">>,
       <<"invalid", "svg-wrong-media-type">>, <<"invalid", "audio-non-core-media-type">>,
       <<"invalid", "content-non-utf8-encoding">>, <<"invalid", "content-utf16-encoding">>,
       <<"invalid", "opf-no-unique-id-attr">>, <<"invalid",
       "opf-duplicate-dcterms-modified">>, <<"invalid", "opf-manifest-invalid-property">>,
       <<"invalid", "opf-manifest-href-empty">>, <<"invalid", "opf-dc-identifier-empty">>,
       <<"invalid", "opf-dc-title-empty">>, <<"invalid", "opf-manifest-href-fragment">>,
       <<"invalid", "opf-package-dir-invalid">>, <<"invalid",
       "content-epub-type-invalid">>, <<"invalid", "content-duplicate-ids">>, <<"invalid",
       "content-html-entity">>, <<"invalid", "content-multiple-body">>, <<"invalid",
       "content-no-html-element">>, <<"invalid", "content-processing-instruction">>,
       <<"invalid", "content-style-position-absolute">>, <<"invalid",
       "content-object-no-fallback">>, <<"invalid", "content-link-parent-dir">>,
       <<"invalid", "nav-toc-no-ol">>, <<"invalid", "nav-hidden-attribute">>, <<"invalid",
       "nav-landmarks-invalid-type">>, <<"invalid", "nav-malformed-xhtml">>, <<"invalid",
       "epub2-with-nav-property">>, <<"invalid", "epub2-with-dcterms-modified">>,
       <<"invalid", "epub2-ncx-navpoint-no-content">>, <<"invalid",
       "epub2-ncx-broken-content-src">>, <<"invalid", "epub2-guide-broken-href">>,
       <<"invalid", "epub2-ncx-uid-mismatch">>, <<"invalid", "epub2-ncx-duplicate-ids">>,
       <<"invalid", "manifest-href-bad-encoding">>, <<"invalid",
       "manifest-path-traversal">>, <<"invalid", "manifest-duplicate-item-same-resource">>,
       <<"invalid", "ocf-metainf-extra-files">>, <<"invalid",
       "ocf-container-multiple-rootfiles">>, <<"invalid", "manifest-absolute-path">>,
       <<"invalid", "ocf-container-wrong-rootfile-mediatype">>, <<"valid", "fxl-epub3">>,
       <<"valid", "epub3-with-css">> >>

\* the create_fixture ("invalid") and create_valid_fixture ("valid") calls of
\* create-level4-fixtures.py, in the order in which the script makes them
LEVEL4_CALLS ==
    << <<"invalid", "opf-ppd-invalid">>, <<"invalid", "opf-dc-date-invalid">>, <<"invalid",
       "opf-meta-refines-bad-target">>, <<"invalid", "opf-spine-linear-invalid">>,
       <<"invalid", "opf-epub3-guide">>, <<"invalid", "opf-uuid-invalid">>, <<"invalid",
       "opf-spine-all-nonlinear">>, <<"invalid", "opf-rendition-flow-invalid">>,
       <<"invalid", "opf-prefix-invalid">>, <<"invalid", "opf-media-overlay-bad-ref">>,
       <<"invalid", "content-no-head">>, <<"invalid", "content-embed-element">>,
       <<"invalid", "content-lang-mismatch">>, <<"invalid",
       "content-video-poster-missing">>, <<"invalid", "content-audio-missing">>,
       <<"invalid", "content-svg-malformed">>, <<"invalid", "content-img-empty-src">>,
       <<"invalid", "content-ssml-invalid-ns">>, <<"invalid",
       "content-style-syntax-error">>, <<"invalid", "content-rdf-element">>, <<"invalid",
       "acc-no-a11y-metadata">>, <<"invalid", "acc-img-no-alt">>, <<"invalid",
       "acc-no-lang">>, <<"invalid", "acc-dc-source-no-page-list">>, <<"invalid",
       "acc-no-accessmode">>, <<"invalid", "acc-no-access-sufficient">>, <<"invalid",
       "acc-no-summary">>, <<"invalid", "acc-no-feature">>, <<"invalid", "acc-no-hazard">>,
       <<"invalid", "acc-no-landmarks">> >>

\* every script with the calls of level 4
Calls_bug(s) == LEVEL4_CALLS

\* the calls of the fixture script that starts at statement s
Calls(s) ==
    IF s = "level2_fixtures" THEN LEVEL2_CALLS
    ELSE IF s = "level3_fixtures" THEN LEVEL3_CALLS
    ELSE LEVEL4_CALLS

\* the level of the fixture script and the main of its generator
LevelOf(s) ==
    IF s = "level2_fixtures" THEN 2 ELSE IF s = "level3_fixtures" THEN 3 ELSE 4
GeneratorOf(s) ==
    IF s = "level2_fixtures" THEN "level2_main"
    ELSE IF s = "level3_fixtures" THEN "level3_main"
    ELSE "level4_main"

\* The 'files' argument of a call, cut down to its paths: the five files
\* of minimal-epub2 for create_valid_fixture of level 2, which has no
\* defaults, and nothing over the defaults elsewhere.
FilesOf(level, category) ==
    IF level = 2 /\ category = "valid" THEN [p \in DOMAIN EPUB2_DEFAULTS |-> Str(<<60>>)]
    ELSE EmptyTree

\* no directory below fixtures/src
NoDirs == [d \in {} |-> EmptyTree]

InitLevel ==
    /\ NoBuild
    /\ pc \in {"level2_fixtures", "level3_fixtures", "level4_fixtures"}
    /\ iter = Calls(pc)
    /\ fixtures_src \in {NoDirs} \cup { [d \in {Calls(pc)[1]} |-> t] : t \in PriorTrees }
    /\ call = [fn |-> ""]
    /\ calls = 0
    /\ fixtures_before = fixtures_src
    /\ checks = <<>>
    /\ \E R \in {{}, SuiteNames}, d \in Docs :
           reference = [p \in { <<"invalid", n>> : n \in R } |-> d]
    /\ expected = <<>>
    /\ console = <<>>
    /\ created = 0
    /\ skipped = 0
    /\ ran = <<>>
    /\ written = <<>>

\* the next create_fixture or create_valid_fixture call of the script,
\* from its rmtree to its return
fixtures_call ==
    /\ pc \in {"level2_fixtures", "level3_fixtures", "level4_fixtures"}
    /\ iter # <<>>
    /\ LET dir == Head(iter)
           c == [fn |-> IF dir[1] = "invalid" THEN "create_fixture"
                        ELSE "create_valid_fixture",
                 level |-> LevelOf(pc), name |-> dir[2],
                 files |-> FilesOf(LevelOf(pc), dir[1]), base |-> "epub3",
                 fixture_dir |-> dir]
           removed == IF dir \in DOMAIN fixtures_src THEN rmtree(fixtures_src, dir)
                      ELSE fixtures_src
       IN  /\ call' = c
           /\ fixtures_before' = fixtures_src
           /\ fixtures_src' =
                  Put(removed, dir, [p \in DOMAIN merged(c) |-> FileBytes(merged(c)[p])])
    /\ calls' = calls + 1
    /\ iter' = Tail(iter)
    /\ UNCHANGED <<buildState, walkState, expectedState, pc>>

\* the fixture script has ended; python3 scripts/create-level<N>-expected.py
fixtures_done ==
    /\ pc \in {"level2_fixtures", "level3_fixtures", "level4_fixtures"}
    /\ iter = <<>>
    /\ pc' = GeneratorOf(pc)
    /\ ran' = <<GeneratorOf(pc)>>
    /\ checks' = Table(GeneratorOf(pc))
    /\ UNCHANGED <<buildState, walkState, fixturesState, reference, expected, console,
                   created, skipped, written, iter>>

NextLevel ==
    \/ fixtures_call
    \/ fixtures_done
    \/ level2_main
    \/ level2_fixture
    \/ level2_done
    \/ level3_main
    \/ level3_create_expected
    \/ level3_create_valid_expected
    \/ level3_done
    \/ level4_main
    \/ level4_create_expected
    \/ level4_done

SpecLevel == InitLevel /\ [][NextLevel]_vars

(***************************************************************************)
(* Vocabulary of the properties.                                           *)
(***************************************************************************)
\* the statements of the script in program order
Statements ==
    <<"not_first_open", "not_first_loop", "not_first_close",
      "compressed_open", "compressed_mimetype", "compressed_loop",
      "extra_field_open", "extra_field_mimetype", "extra_field_loop",
      "extra_field_read", "extra_field_assert", "extra_field_patch",
      "extra_field_open_out", "extra_field_write_out", "extra_field_remove",
      "duplicate_open_in", "duplicate_read", "duplicate_open_out", "duplicate_loop",
      "duplicate_close_out", "duplicate_close_in", "duplicate_replace", "done">>

\* the statements that follow statement s
After(s) ==
    { Statements[i] : i \in { j \in 1..Len(Statements) :
                                \E k \in 1..(j - 1) : Statements[k] = s } }

\* the operation has returned in this run of the script
ReturnedNotFirst == pc \in After("not_first_close")
ReturnedCompressed == pc \in After("compressed_loop")
ReturnedExtraField == pc \in After("extra_field_remove")
ReturnedDuplicate == pc = "done"

\* the final output paths of the four operations
FinalPaths == {OUT_NOT_FIRST, OUT_COMPRESSED, OUT_EXTRA_FIELD, EPUB_DUPLICATE}

\* the entry names of a filelist, in directory order
Names(filelist) == [i \in 1..Len(filelist) |-> filelist[i].filename]

\* the compression methods of a filelist, in directory order
Methods(filelist) == [i \in 1..Len(filelist) |-> filelist[i].compress_type]

\* the arcnames collect_files yields for BASE without mimetype
OtherNames == [i \in 1..Len(collect_files(base, {N_mimetype})) |->
                  collect_files(base, {N_mimetype})[i][1]]

\* the content of the file of BASE with the given arcname
SourceOf(arcname) == base[CHOOSE q \in DOMAIN base : relpath(q) = arcname]

\* str.lower() of an ASCII name
lower(name) ==
    [i \in 1..Len(name) |-> IF name[i] >= 65 /\ name[i] <= 90 THEN name[i] + 32 ELSE name[i]]

RECURSIVE ScanLocals(_, _)
\* the positions at which local file headers start, found by walking the
\* file from position pos: header, name, extra field, payload, next header
ScanLocals(bytes, pos) ==
    IF \/ pos + sizeFileHeader > Len(bytes)
       \/ Slice(bytes, pos, pos + 4) # stringFileHeader
    THEN <<>>
    ELSE <<pos>> \o ScanLocals(bytes, pos + sizeFileHeader + U2(bytes, pos + 26)
                                       + U2(bytes, pos + 28) + U4(bytes, pos + 18))

\* the position right after the last local entry: where the directory starts
EndOfLocals(bytes) ==
    LET starts == ScanLocals(bytes, 0)
    IN  IF starts = <<>> THEN 0
        ELSE LET pos == starts[Len(starts)]
             IN  pos + sizeFileHeader + U2(bytes, pos + 26) + U2(bytes, pos + 28)
                 + U4(bytes, pos + 18)

\* the central directory offset recorded in the end record
RecordedDirOffset(bytes) == U4(bytes, Len(bytes) - sizeEndCentDir + 16)

\* the directory is where the end record says it is
DirAtRecordedOffset(bytes) ==
    /\ HasEndRecord(bytes)
    /\ RecordedDirOffset(bytes) + U4(bytes, Len(bytes) - sizeEndCentDir + 12)
         = Len(bytes) - sizeEndCentDir
    /\ DirOK(bytes, RecordedDirOffset(bytes), Len(bytes) - sizeEndCentDir)

\* the filelist of a reader that takes every recorded offset as it is
StrictList(bytes) ==
    ParseDir(bytes, RecordedDirOffset(bytes), Len(bytes) - sizeEndCentDir, 0)

\* such a reader extracts every entry without an error
Extractable(bytes) ==
    /\ bytes # NoFile
    /\ DirAtRecordedOffset(bytes)
    /\ \A i \in 1..Len(StrictList(bytes)) :
           ReadEntry(bytes, StrictList(bytes)[i]) # BadZipFile

\* every recorded offset is the position of the header it stands for
OffsetsValid(bytes) ==
    /\ bytes # NoFile
    /\ HasEndRecord(bytes)
    /\ RecordedDirOffset(bytes) = EndOfLocals(bytes)
    /\ DirAtRecordedOffset(bytes)
    /\ Len(StrictList(bytes)) = Len(ScanLocals(bytes, 0))
    /\ \A i \in 1..Len(StrictList(bytes)) :
           StrictList(bytes)[i].header_offset = ScanLocals(bytes, 0)[i]

(***************************************************************************)
(* Properties of the four operations.                                      *)
(***************************************************************************)
\* C1: once build_mimetype_not_first has returned for a base tree with a
\* mimetype file and at least one other file, its archive holds exactly one
\* entry named mimetype, that entry is STORED and is the last one (so it is
\* not the first), and every other entry is DEFLATED.
C1_NotFirst ==
    (ReturnedNotFirst /\ Cardinality(DOMAIN base) >= 2) =>
        LET F == fs[OUT_NOT_FIRST]
            L == infolist(F)
        IN  /\ F # NoFile /\ is_zipfile(F)
            /\ Cardinality({ i \in 1..Len(L) : L[i].filename = N_mimetype }) = 1
            /\ Len(L) >= 2
            /\ L[Len(L)].filename = N_mimetype
            /\ L[Len(L)].compress_type = ZIP_STORED
            /\ U2(F, L[Len(L)].header_offset + 8) = ZIP_STORED
            /\ L[1].filename # N_mimetype
            /\ \A i \in 1..(Len(L) - 1) : L[i].compress_type = ZIP_DEFLATED

\* C1 witness: the operation has just returned for a tree of three files
C1_Witness ==
    /\ pc = "compressed_open"
    /\ Cardinality(DOMAIN base) = 3
    /\ Len(infolist(fs[OUT_NOT_FIRST])) = 3

\* C2: once build_mimetype_compressed has returned, the first entry of its
\* archive is named mimetype and is DEFLATED, not STORED; every other entry
\* follows it and is DEFLATED; the mimetype entry decompresses to the content
\* of the base tree's mimetype file.
C2_Compressed ==
    ReturnedCompressed =>
        LET F == fs[OUT_COMPRESSED]
            L == infolist(F)
        IN  /\ F # NoFile /\ is_zipfile(F)
            /\ Len(L) = Cardinality(DOMAIN base)
            /\ L[1].filename = N_mimetype
            /\ L[1].compress_type = ZIP_DEFLATED
            /\ L[1].compress_type # ZIP_STORED
            /\ U2(F, L[1].header_offset + 8) = ZIP_DEFLATED
            /\ \A i \in 2..Len(L) :
                   L[i].filename # N_mimetype /\ L[i].compress_type = ZIP_DEFLATED
            /\ ReadEntry(F, L[1]) = base[P_mimetype]

\* C2 witness: the operation has just returned and the mimetype file is not
\* empty, so that its deflated payload differs from its content
C2_Witness ==
    /\ pc = "extra_field_open"
    /\ Len(base[P_mimetype]) = 2
    /\ Cardinality(DOMAIN base) = 3
    /\ ReadEntry(fs[OUT_COMPRESSED], infolist(fs[OUT_COMPRESSED])[1]) = base[P_mimetype]

\* C3: once build_mimetype_extra_field has returned, the first local file
\* header of its archive is that of an entry named mimetype, STORED, whose
\* extra-field length (16-bit little-endian at offset 28) is greater than
\* zero, and the extra field, which starts at offset 30 + filename length,
\* ends with the injected block (tag 0xCAFE, length 4, four zero bytes).
C3_ExtraField ==
    ReturnedExtraField =>
        LET F == fs[OUT_EXTRA_FIELD]
            n == U2(F, 26)
            e == U2(F, 28)
        IN  /\ F # NoFile /\ Len(F) >= sizeFileHeader
            /\ Slice(F, 0, 4) = stringFileHeader
            /\ Slice(F, 30, 30 + n) = N_mimetype
            /\ infolist(F)[1].filename = N_mimetype
            /\ U2(F, 8) = ZIP_STORED
            /\ e > 0
            /\ e >= 8
            /\ Slice(F, 30 + n + e - 8, 30 + n + e) = <<254, 202, 4, 0, 0, 0, 0, 0>>
            /\ Slice(F, 30 + n + e, 30 + n + e + Len(base[P_mimetype])) = base[P_mimetype]

\* C3 witness: the operation has just returned and left a patched archive
C3_Witness ==
    /\ pc = "duplicate_open_in"
    /\ fs[OUT_EXTRA_FIELD] # NoFile
    /\ U2(fs[OUT_EXTRA_FIELD], 28) = 8
    /\ Cardinality(DOMAIN base) = 3

\* C4: once build_manifest_duplicate_item_same_resource has returned for an
\* archive that held OEBPS/chapter1.xhtml with content X, the archive holds
\* two separate entries named OEBPS/chapter1.xhtml and OEBPS/Chapter1.xhtml,
\* names that differ only by letter case, and reading either yields X.
C4_DuplicateCase ==
    ReturnedDuplicate =>
        LET F0 == before[EPUB_DUPLICATE]
            X == read(F0, infolist(F0), A_chapter1)
            F == fs[EPUB_DUPLICATE]
            L == infolist(F)
        IN  /\ F # NoFile /\ is_zipfile(F)
            /\ A_chapter1 # A_Chapter1 /\ lower(A_chapter1) = lower(A_Chapter1)
            /\ \E i, j \in 1..Len(L) :
                   /\ i # j
                   /\ L[i].filename = A_chapter1
                   /\ L[j].filename = A_Chapter1
                   /\ ReadEntry(F, L[i]) = X
                   /\ ReadEntry(F, L[j]) = X
            /\ read(F, L, A_chapter1) = X
            /\ read(F, L, A_Chapter1) = X

\* C4 witness: the operation has returned for an archive whose chapter is
\* not empty and which already held an entry OEBPS/Chapter1.xhtml
C4_Witness ==
    /\ pc = "done"
    /\ HasName(infolist(before[EPUB_DUPLICATE]), A_Chapter1)
    /\ Len(read(fs[EPUB_DUPLICATE], infolist(fs[EPUB_DUPLICATE]), A_Chapter1)) = 2

\* C5: once build_mimetype_extra_field has returned, every central
\* directory record's local-header offset is the position at which that
\* entry's local file header starts in the patched file, and the end
\* record's directory offset is the position at which the directory starts.
C5_OffsetsValid ==
    ReturnedExtraField => OffsetsValid(fs[OUT_EXTRA_FIELD])

\* every entry of an archive built from BASE extracts to its source file
RoundTrip(F) ==
    /\ Extractable(F)
    /\ \A i \in 1..Len(StrictList(F)) :
           ReadEntry(F, StrictList(F)[i]) = SourceOf(StrictList(F)[i].filename)

\* every entry of the duplicate-case archive F extracts to the content of
\* the entry of the original archive F0 it was written from
RoundTripDuplicate(F, F0) ==
    /\ Extractable(F)
    /\ Len(StrictList(F)) = Len(infolist(F0)) + 1
    /\ \A i \in 1..Len(infolist(F0)) :
           ReadEntry(F, StrictList(F)[i]) = ReadEntry(F0, infolist(F0)[i])
    /\ ReadEntry(F, StrictList(F)[Len(StrictList(F))])
         = read(F0, infolist(F0), A_chapter1)

\* C6: each of the four archives, once its operation has returned, can be
\* read by following the recorded offsets, every entry extracts without an
\* error, and each extracted content is that of its source.
C6_RoundTrip ==
    /\ ReturnedNotFirst => RoundTrip(fs[OUT_NOT_FIRST])
    /\ ReturnedCompressed => RoundTrip(fs[OUT_COMPRESSED])
    /\ ReturnedExtraField => RoundTrip(fs[OUT_EXTRA_FIELD])
    /\ ReturnedDuplicate => RoundTripDuplicate(fs[EPUB_DUPLICATE], before[EPUB_DUPLICATE])

\* F is a whole duplicate-case archive of the original F0: closed, every
\* entry of F0 and the added one in it, every entry extractable
CompleteDuplicate(F, F0) ==
    /\ Extractable(F)
    /\ OffsetsValid(F)
    /\ Names(StrictList(F)) = Names(infolist(F0)) \o <<A_Chapter1>>

\* C7 (states): the final path of the duplicate-case operation holds the
\* original archive or, once the operation has returned, the whole new one.
C7_OldOrNew ==
    \/ fs[EPUB_DUPLICATE] = before[EPUB_DUPLICATE]
    \/ /\ pc = "done"
       /\ CompleteDuplicate(fs[EPUB_DUPLICATE], before[EPUB_DUPLICATE])

\* C7 (steps): the final path changes only in os.replace, when both
\* archives are closed, and it then receives the whole archive built at tmp.
C7_OnlyReplace ==
    fs'[EPUB_DUPLICATE] # fs[EPUB_DUPLICATE] =>
        /\ pc = "duplicate_replace"
        /\ zf = <<>> /\ zin = <<>>
        /\ fs'[EPUB_DUPLICATE] = fs[TMP_DUPLICATE]
        /\ CompleteDuplicate(fs[TMP_DUPLICATE], fs[EPUB_DUPLICATE])

\* C7: in every state of the duplicate-case operation, a failure at any
\* step included, the final path holds the whole original or the whole new
\* archive; the new one is built at tmp and moved in after both are closed.
C7_AtomicReplace == [](C7_OldOrNew) /\ [][C7_OnlyReplace]_vars

\* C7 witness: the operation failed while tmp was half written (the added
\* entry is missing) and the final path still holds the original archive
C7_Witness ==
    /\ pc = "aborted"
    /\ fs[TMP_DUPLICATE] # NoFile
    /\ is_zipfile(fs[TMP_DUPLICATE])
    /\ Len(infolist(fs[TMP_DUPLICATE])) = 1
    /\ fs[EPUB_DUPLICATE] = before[EPUB_DUPLICATE]
    /\ Len(infolist(fs[EPUB_DUPLICATE])) >= 2

\* the final path p holds the whole archive its operation builds
CompleteOutput(p) ==
    /\ fs[p] # NoFile
    /\ is_zipfile(fs[p])
    /\ \A i \in 1..Len(infolist(fs[p])) :
           ReadEntry(fs[p], [infolist(fs[p])[i] EXCEPT
                                !.header_offset = ScanLocals(fs[p], 0)[i]]) # BadZipFile
    /\ Names(infolist(fs[p])) =
           IF p = OUT_NOT_FIRST THEN OtherNames \o <<N_mimetype>>
           ELSE IF p = EPUB_DUPLICATE
                THEN Names(infolist(before[p])) \o <<A_Chapter1>>
                ELSE <<N_mimetype>> \o OtherNames

\* C8: when an operation has failed, no final output path holds a partly
\* written archive: each holds what it held before the operation, or
\* nothing, or a whole archive.
C8_NoPartialOutput ==
    pc = "aborted" =>
        \A p \in FinalPaths :
            fs[p] = before[p] \/ fs[p] = NoFile \/ CompleteOutput(p)

\* C9: when the file at tmp does not start with the local file header
\* signature, the script never gets past the assert: no byte of the buffer
\* is rewritten and the final output path keeps what it held.
C9_MagicAbort ==
    (/\ fs[TMP_EXTRA_FIELD] # NoFile
     /\ Clamp(fs[TMP_EXTRA_FIELD], 0, 4) # stringFileHeader) =>
        /\ pc \in {"extra_field_read", "extra_field_assert", "aborted"}
        /\ data \in {<<>>, fs[TMP_EXTRA_FIELD]}
        /\ fs[OUT_EXTRA_FIELD] = before[OUT_EXTRA_FIELD]

\* C9 witness: the assert has stopped the script (no I/O error happened) on
\* a buffer long enough to be patched, with an older output in place
C9_Witness ==
    /\ pc = "aborted"
    /\ failures = 0
    /\ Len(fs[TMP_EXTRA_FIELD]) >= sizeFileHeader
    /\ Clamp(fs[TMP_EXTRA_FIELD], 0, 4) # stringFileHeader
    /\ fs[OUT_EXTRA_FIELD] # NoFile

\* the structure of an archive: entry names and methods in directory
\* order, and the extra-field length of its first local header
Structure(F) ==
    IF F = NoFile \/ ~is_zipfile(F) THEN <<>>
    ELSE <<Names(infolist(F)), Methods(infolist(F)),
           IF Len(F) >= sizeFileHeader /\ Slice(F, 0, 4) = stringFileHeader
           THEN U2(F, 28) ELSE 0>>

\* C10: when the script has run to its end twice in succession, each of
\* the four archives has the structure the first run gave it.
C10_Idempotent ==
    (pc = "done" /\ prev[EPUB_DUPLICATE] # NoFile) =>
        \A p \in FinalPaths : Structure(fs[p]) = Structure(prev[p])

(***************************************************************************)
(* The three OCF container rules about the mimetype entry, read from the   *)
(* bytes of an archive by walking its local file headers.                  *)
(***************************************************************************)
\* the name in the local file header at position pos
LocalName(F, pos) == Slice(F, pos + 30, pos + 30 + U2(F, pos + 26))

\* the positions of the local file headers of the entries named mimetype
MimetypeHeaders(F) ==
    { ScanLocals(F, 0)[i] : i \in { j \in 1..Len(ScanLocals(F, 0)) :
                                      LocalName(F, ScanLocals(F, 0)[j]) = N_mimetype } }

\* the rules that archive F breaks: "first" when its first entry is not
\* mimetype, "stored" when a mimetype entry is not STORED, "extra" when the
\* extra-field length of a mimetype local header is not zero
Violations(F) ==
    { r \in {"first", "stored", "extra"} :
        \/ r = "first" /\ 0 \notin MimetypeHeaders(F)
        \/ r = "stored" /\ \E pos \in MimetypeHeaders(F) : U2(F, pos + 8) # ZIP_STORED
        \/ r = "extra" /\ \E pos \in MimetypeHeaders(F) : U2(F, pos + 28) # 0 }

\* C11: for a base tree that is a source tree (mimetype and at least one
\* other file), each of the three mimetype archives, once its operation has
\* returned, holds one mimetype entry and breaks exactly one of the three
\* rules: not-first only the order, compressed only the method, extra-field
\* only the extra-field length; each satisfies the other two rules.
C11_SingleDefect ==
    Cardinality(DOMAIN base) >= 2 =>
        /\ ReturnedNotFirst =>
               /\ Cardinality(MimetypeHeaders(fs[OUT_NOT_FIRST])) = 1
               /\ Violations(fs[OUT_NOT_FIRST]) = {"first"}
        /\ ReturnedCompressed =>
               /\ Cardinality(MimetypeHeaders(fs[OUT_COMPRESSED])) = 1
               /\ Violations(fs[OUT_COMPRESSED]) = {"stored"}
        /\ ReturnedExtraField =>
               /\ Cardinality(MimetypeHeaders(fs[OUT_EXTRA_FIELD])) = 1
               /\ Violations(fs[OUT_EXTRA_FIELD]) = {"extra"}

\* C11 witness: the three operations have returned for a tree of three
\* files and the three archives break three different rules
C11_Witness ==
    /\ pc = "duplicate_open_in"
    /\ Cardinality(DOMAIN base) = 3
    /\ Violations(fs[OUT_NOT_FIRST]) = {"first"}
    /\ Violations(fs[OUT_COMPRESSED]) = {"stored"}
    /\ Violations(fs[OUT_EXTRA_FIELD]) = {"extra"}

(***************************************************************************)
(* Properties of collect_files.                                            *)
(***************************************************************************)
\* the number of leading components that paths p and q share
Common(p, q) ==
    LET n == IF Len(p) < Len(q) THEN Len(p) ELSE Len(q)
        S == { k \in 0..n : SubSeq(p, 1, k) = SubSeq(q, 1, k) }
    IN  CHOOSE k \in S : \A m \in S : m <= k

\* file p comes before file q in the walk: in one directory by name; a file
\* of a directory before the files below its subdirectories; the
\* subdirectories of a directory by name
WalkBefore(p, q) ==
    LET k == Common(p, q)
    IN  IF Len(p) = k + 1 /\ Len(q) > k + 1 THEN TRUE
        ELSE IF Len(q) = k + 1 /\ Len(p) > k + 1 THEN FALSE
        ELSE BytesLess(p[k + 1], q[k + 1])

\* ys holds each file of the tree that is not excluded once, under its
\* relative path, in walk order
WalkOrdered(ys, tree, excl) ==
    /\ { ys[i][2] : i \in 1..Len(ys) } = { p \in DOMAIN tree : relpath(p) \notin excl }
    /\ \A i \in 1..Len(ys) : ys[i][1] = relpath(ys[i][2])
    /\ \A i, j \in 1..Len(ys) : i < j => WalkBefore(ys[i][2], ys[j][2])

\* C12: whatever order the file system lists the names in, collect_files
\* yields every file that is not excluded exactly once, the files of a
\* directory in sorted name order and before the files of its
\* subdirectories, the subdirectories in sorted name order; so the builds
\* of one tree all yield the same sequence.
C12_WalkOrder ==
    /\ \A n \in 1..Len(yielded) : WalkOrdered(yielded[n], base, exclude)
    /\ \A n, m \in 1..Len(yielded) : yielded[n] = yielded[m]

\* C12 witness: two builds of the six-file tree have yielded the same six
\* files, the two root files first and in name order, then those of
\* META-INF, while the file system lists the names in another order
C12_Witness ==
    /\ Len(yielded) = 2
    /\ Len(yielded[1]) = 6
    /\ yielded[1][1][1] = N_Chapter1_xhtml
    /\ yielded[1][2][1] = N_mimetype
    /\ yielded[1][3][2] = <<N_META_INF, N_chapter1_xhtml>>
    /\ yielded[1] = yielded[2]
    /\ sorted(scandir) # scandir

(***************************************************************************)
(* Properties of the splice of build_mimetype_extra_field.                 *)
(***************************************************************************)
\* the bytearray has been patched and the file at tmp is still the original
Patched == pc \in {"extra_field_open_out", "extra_field_write_out", "extra_field_remove"}

\* C13: with n and e the 16-bit values at offsets 26 and 28 of the original
\* buffer, the patched buffer is 8 bytes longer; its bytes before offset 28
\* and from 30 to 30+n+e are those of the original; the field at offset 28
\* holds e+8; the 8-byte block stands at offset 30+n+e; and all bytes of the
\* original from 30+n+e on follow the block, in order.
C13_SpliceFrame ==
    Patched =>
        LET o == fs[TMP_EXTRA_FIELD]
            n == U2(o, 26)
            e == U2(o, 28)
        IN  /\ Len(data) = Len(o) + 8
            /\ Slice(data, 0, 28) = Slice(o, 0, 28)
            /\ Slice(data, 28, 30) = LE2(e + 8)
            /\ Slice(data, 30, 30 + n + e) = Slice(o, 30, 30 + n + e)
            /\ Slice(data, 30 + n + e, 30 + n + e + 8) = <<254, 202, 4, 0, 0, 0, 0, 0>>
            /\ Slice(data, 30 + n + e + 8, Len(data)) = Slice(o, 30 + n + e, Len(o))

\* C13 witness: a buffer whose first header already had an extra field of
\* 5 bytes has been patched; the field now holds 13
C13_Witness ==
    /\ pc = "extra_field_open_out"
    /\ U2(fs[TMP_EXTRA_FIELD], 28) = 5
    /\ U2(data, 28) = 13
    /\ Len(data) = Len(fs[TMP_EXTRA_FIELD]) + 8

RECURSIVE ExtraRecords(_)
\* the (tag, payload) records of an extra field area, read front to back;
\* what cannot be read as a record is left out
ExtraRecords(x) ==
    IF Len(x) < 4 \/ 4 + U2(x, 2) > Len(x) THEN <<>>
    ELSE <<<<U2(x, 0), Slice(x, 4, 4 + U2(x, 2))>>>>
         \o ExtraRecords(Slice(x, 4 + U2(x, 2), Len(x)))

RECURSIVE RecordsLen(_)
\* the number of bytes the records take
RecordsLen(rs) ==
    IF rs = <<>> THEN 0 ELSE 4 + Len(Head(rs)[2]) + RecordsLen(Tail(rs))

\* the area is a sequence of whole records that uses all of its bytes
WellFormedExtra(x) == RecordsLen(ExtraRecords(x)) = Len(x)

\* C14: the injected block is one whole record: tag 0xCAFE and length 4 as
\* 16-bit little-endian values, then exactly 4 payload bytes, all zero, 8
\* bytes in all.  So when the old extra area of the first header was a
\* sequence of whole records, the new area of e+8 bytes is one too: the old
\* records followed by the block, with no byte left over.
C14_BlockConsistent ==
    /\ Len(extra_data) = 8
    /\ U2(extra_data, 0) = 51966
    /\ U2(extra_data, 2) = 4
    /\ Slice(extra_data, 4, Len(extra_data)) = <<0, 0, 0, 0>>
    /\ Len(extra_data) = 4 + U2(extra_data, 2)
    /\ Patched =>
           LET o == fs[TMP_EXTRA_FIELD]
               n == U2(o, 26)
               e == U2(o, 28)
               old == Slice(o, 30 + n, 30 + n + e)
               new == Slice(data, 30 + n, 30 + n + U2(data, 28))
           IN  WellFormedExtra(old) =>
                   /\ Len(new) = e + 8
                   /\ WellFormedExtra(new)
                   /\ ExtraRecords(new) = ExtraRecords(old) \o <<<<51966, <<0, 0, 0, 0>>>>>>

\* C14 witness: the old extra area held one record and the patched one
\* holds two, the second being the block
C14_Witness ==
    /\ Patched
    /\ U2(fs[TMP_EXTRA_FIELD], 28) = 5
    /\ WellFormedExtra(Slice(fs[TMP_EXTRA_FIELD], 38, 43))
    /\ Len(ExtraRecords(Slice(data, 38, 51))) = 2
    /\ ExtraRecords(Slice(data, 38, 51))[2] = <<51966, <<0, 0, 0, 0>>>>

(***************************************************************************)
(* Properties of the copy loop of the duplicate-case operation.            *)
(***************************************************************************)
\* C15: once build_manifest_duplicate_item_same_resource has returned, the
\* archive holds every entry of the original archive under the same name,
\* at the same place, with the same compression method and the same
\* content, then one more entry, the last, named OEBPS/Chapter1.xhtml and
\* DEFLATED: exactly one entry more than the original.
C15_CopyUnchanged ==
    ReturnedDuplicate =>
        LET F0 == before[EPUB_DUPLICATE]
            L0 == infolist(F0)
            F == fs[EPUB_DUPLICATE]
            L == infolist(F)
        IN  /\ Len(L) = Len(L0) + 1
            /\ \A i \in 1..Len(L0) :
                   /\ L[i].filename = L0[i].filename
                   /\ L[i].compress_type = L0[i].compress_type
                   /\ ReadEntry(F, L[i]) = ReadEntry(F0, L0[i])
            /\ L[Len(L)].filename = A_Chapter1
            /\ L[Len(L)].compress_type = ZIP_DEFLATED

(***************************************************************************)
(* Properties of the run as a whole.                                       *)
(***************************************************************************)
\* the operation (1 to 4, in the order of __main__) that statement s is
\* part of; 0 when the script is not in an operation
OpOf(s) ==
    IF s \in {"not_first_open", "not_first_loop", "not_first_close"} THEN 1
    ELSE IF s \in {"compressed_open", "compressed_mimetype", "compressed_loop"} THEN 2
    ELSE IF s \in {"idle", "done", "aborted"} THEN 0
    ELSE IF s \in {"duplicate_open_in", "duplicate_read", "duplicate_open_out",
                   "duplicate_loop", "duplicate_close_out", "duplicate_close_in",
                   "duplicate_replace"} THEN 4
    ELSE 3

\* the paths that operation k writes
OutputsOf(k) ==
    IF k = 1 THEN {OUT_NOT_FIRST}
    ELSE IF k = 2 THEN {OUT_COMPRESSED}
    ELSE IF k = 3 THEN {OUT_EXTRA_FIELD, TMP_EXTRA_FIELD}
    ELSE {EPUB_DUPLICATE, TMP_DUPLICATE}

\* the statement after s in program order
Following(s) ==
    Statements[(CHOOSE i \in 1..Len(Statements) : Statements[i] = s) + 1]

\* one step of a run keeps the order of the operations
C20_Step ==
    /\ OpOf(pc) # 0 =>
           /\ pc' \in {pc, Following(pc), "aborted"}
           /\ \A k \in 1..4 : \A p \in OutputsOf(k) :
                  k > OpOf(pc) => fs'[p] = fs[p]
    /\ OpOf(pc) = 0 =>
           /\ pc' \in {pc, "not_first_open"}
           /\ fs' = fs
           /\ pc' # pc => runs' = runs + 1

\* C20: a run goes through the statements of not-first, compressed,
\* extra-field and duplicate-case in that order, the first statement of an
\* operation being reached only from the last statement of the one before
\* it; when a statement fails the run stops: no statement of a later
\* operation is reached before the script is started again, and no step of
\* an operation, the failing one included, changes a path that a later
\* operation writes.
C20_InOrder == [][C20_Step]_vars

\* C20 witness: the first run has stopped in the second operation: the
\* first archive is whole, the second is not, and the paths of the third
\* and fourth operations hold what they held before the run
C20_Witness ==
    /\ pc = "aborted"
    /\ runs = 1
    /\ CompleteOutput(OUT_NOT_FIRST)
    /\ fs[OUT_COMPRESSED] # NoFile
    /\ Len(infolist(fs[OUT_COMPRESSED])) < Cardinality(DOMAIN base)
    /\ fs[OUT_EXTRA_FIELD] = NoFile
    /\ fs[TMP_EXTRA_FIELD] = NoFile
    /\ fs[TMP_DUPLICATE] = NoFile
    /\ fs[EPUB_DUPLICATE] = before[EPUB_DUPLICATE]

(***************************************************************************)
(* Properties of the expectation generators.                               *)
(***************************************************************************)
\* the generator has printed that it skipped the fixture
ReportedSkipped(name) ==
    \E i \in 1..Len(console) : console[i][1] = "SKIP" /\ console[i][3] = name

\* C16: when a generator of level 2, 3 or 4 has run to its end, each
\* fixture of its table whose reference document is absent has no
\* expectation record and was reported as skipped, and each fixture whose
\* reference document exists has its record: the absent ones did not stop
\* the batch.
C16_SoftSkip ==
    pc = "done" =>
        \A name \in DOMAIN checks :
            IF exists("invalid", name)
            THEN <<"invalid", name>> \in DOMAIN expected
            ELSE /\ <<"invalid", name>> \notin DOMAIN expected
                 /\ ReportedSkipped(name)

\* the keys of a record and of a message
RecordKeys ==
    {"fixture", "valid", "messages", "fatal_count", "error_count", "error_count_min",
     "warning_count"}
MessageKeys == {"severity", "check_id", "epubcheck_id", "message_pattern", "note"}

\* C17: every expectation record written has the keys fixture, valid,
\* messages, fatal_count, error_count, error_count_min, warning_count and
\* no other but, possibly, note; each of its messages has the keys
\* severity, check_id, epubcheck_id, message_pattern, note and no other; and
\* its fixture field names the category (valid or invalid) and the name of
\* the file expected/<category>/<name>.json that holds it.
C17_RecordShape ==
    \A path \in DOMAIN expected :
        /\ DOMAIN expected[path] \in {RecordKeys, RecordKeys \cup {"note"}}
        /\ \A i \in 1..Len(expected[path].messages) :
               DOMAIN expected[path].messages[i] = MessageKeys
        /\ path[1] \in {"valid", "invalid"}
        /\ expected[path].fixture = path

\* C17 witness: the level 3 generator has written a record with a note, a
\* record with a message and the two records of the valid fixtures
C17_Witness ==
    /\ pc = "done"
    /\ <<"valid", "fxl-epub3">> \in DOMAIN expected
    /\ <<"valid", "epub3-with-css">> \in DOMAIN expected
    /\ \E p, q \in DOMAIN expected :
           /\ "note" \in DOMAIN expected[p]
           /\ Len(expected[q].messages) = 1
           /\ expected[q].fixture = <<"invalid", "css-syntax-error">>

(***************************************************************************)
(* Properties of the fixture generators.                                   *)
(***************************************************************************)
\* the call of function fn has returned
Returned(fn) == pc = "fixtures_main" /\ call.fn = fn

\* the tree of the directory the call has written
Created == fixtures_src[call.fixture_dir]

\* C18: when create_fixture(name, files) has returned, whatever the
\* directory held before, its tree has exactly the paths of the defaults
\* and of files; each path holds the content given in files when files has
\* the path and the default content otherwise; nothing of the earlier
\* content is left; and every other directory is as it was before the call.
C18_FullReplace ==
    Returned("create_fixture") =>
        LET defaults == Defaults(call.level, call.base)
        IN  /\ DOMAIN Created = DOMAIN defaults \cup DOMAIN call.files
            /\ \A p \in DOMAIN Created :
                   Created[p] = FileBytes(IF p \in DOMAIN call.files THEN call.files[p]
                                          ELSE defaults[p])
            /\ \A d \in FixtureDirs \ {call.fixture_dir} :
                   fixtures_src[d] = fixtures_before[d]

\* C18 witness: the directory held a file of an earlier run and another
\* mimetype; the call overrode mimetype and added a binary file; another
\* directory still holds its old file
C18_Witness ==
    /\ Returned("create_fixture")
    /\ "OEBPS/old.xhtml" \in DOMAIN fixtures_before[call.fixture_dir]
    /\ "OEBPS/old.xhtml" \notin DOMAIN Created
    /\ Created["mimetype"] = <<>>
    /\ Created["OEBPS/cover.png"] = <<137, 80>>
    /\ "OEBPS/old.xhtml" \in DOMAIN fixtures_src[<<"invalid", "css-import">>]

\* the tree has the two entries every source tree must have
HasBoth(tree) == {"mimetype", "META-INF/container.xml"} \subseteq DOMAIN tree

\* C19: the tree written by create_fixture or by
\* create_valid_fixture of any level, for any files, has a mimetype entry
\* and a META-INF/container.xml entry.
C19_AlwaysBoth ==
    (Returned("create_fixture") \/ Returned("create_valid_fixture")) => HasBoth(Created)

\* no two of the sets share an element
PairwiseDisjoint(sets) ==
    \A i, j \in 1..Len(sets) : i # j => sets[i] \cap sets[j] = {}

\* the record files the three generators leave for the reference documents
\* there are, whatever the order they ran in
SuitePaths ==
    { <<"valid", n>> : n \in {"minimal-epub2", "fxl-epub3", "epub3-with-css"} }
    \cup { <<"invalid", n>> : n \in { m \in DOMAIN LEVEL2_CHECKS : exists("invalid", m) } }
    \cup { <<"invalid", n>> : n \in DOMAIN LEVEL3_CHECKS \cup DOMAIN LEVEL4_CHECKS }

\* the record the generator of the fixture's level computes for the path
RecordOf(path) ==
    IF path[1] = "valid" THEN create_valid_expected(path[2])
    ELSE IF path[2] \in DOMAIN LEVEL2_CHECKS
    THEN create_expected2(path[2], LEVEL2_CHECKS[path[2]], read_reference("invalid", path[2]))
    ELSE IF path[2] \in DOMAIN LEVEL3_CHECKS
    THEN create_expected3(path[2], LEVEL3_CHECKS[path[2]], "invalid")
    ELSE create_expected4(path[2], LEVEL4_CHECKS[path[2]], "invalid")

\* C21: no record file is written twice, neither within one run of a
\* generator nor by two generators; the fixture names of level 1 and the
\* keys of the check tables of levels 2, 3 and 4 are pairwise disjoint; and
\* when the three generators have run, in whatever order, the record files
\* are the same set with the same content.
C21_WrittenOnce ==
    /\ \A i, j \in 1..Len(written) : i # j => written[i] # written[j]
    /\ PairwiseDisjoint(<<LEVEL1_FIXTURES, LEVEL2_KEYS, LEVEL3_KEYS, LEVEL4_KEYS>>)
    /\ \A i \in 1..Len(ran) :
           DOMAIN Table(ran[i]) \subseteq
               (IF ran[i] = "level2_main" THEN LEVEL2_KEYS
                ELSE IF ran[i] = "level3_main" THEN LEVEL3_KEYS ELSE LEVEL4_KEYS)
    /\ (pc = "done" /\ Len(ran) = 3) =>
           /\ DOMAIN expected = SuitePaths
           /\ \A path \in SuitePaths : expected[path] = RecordOf(path)

\* C21 witness: level 4 ran first, then level 2, which skipped a fixture,
\* then level 3; the records of all three are there
C21_Witness ==
    /\ pc = "done"
    /\ ran = <<"level4_main", "level2_main", "level3_main">>
    /\ <<"invalid", "opf-missing-metadata">> \in DOMAIN expected
    /\ <<"invalid", "opf-malformed-xml">> \notin DOMAIN expected
    /\ <<"invalid", "css-syntax-error">> \in DOMAIN expected
    /\ <<"invalid", "opf-dc-date-invalid">> \in DOMAIN expected
    /\ <<"valid", "minimal-epub2">> \in DOMAIN expected
    /\ Len(written) = 2 + 6 + 5

\* C22: in every expectation record written, valid is true exactly when
\* fatal_count and error_count are both 0.
C22_ValidIffClean ==
    \A path \in DOMAIN expected :
        expected[path].valid <=>
            (expected[path].fatal_count = 0 /\ expected[path].error_count = 0)

\* the generator of level 3 or of level 4 is the one that runs
Level34 == ran # <<>> /\ ran[Len(ran)] \in {"level3_main", "level4_main"}

\* the fixtures of the running table that are not valid_override and whose
\* record has been written
WrittenChecks ==
    { name \in DOMAIN checks :
        /\ ~Get(checks[name], "valid_override", FALSE)
        /\ <<"invalid", name>> \in DOMAIN expected }

\* C23: in the generators of levels 3 and 4, the record of a fixture that
\* is not valid_override and whose reference document exists has
\* fatal_count = checker.nFatal, error_count = checker.nError and
\* warning_count = checker.nWarning of that document.
C23_ReferenceCounts ==
    Level34 =>
        \A name \in WrittenChecks :
            exists("invalid", name) =>
                LET record == expected[<<"invalid", name>>]
                    checker == reference[<<"invalid", name>>].checker
                IN  /\ record.fatal_count = checker.nFatal
                    /\ record.error_count = checker.nError
                    /\ record.warning_count = checker.nWarning

\* how many messages of the reference document of the fixture have the
\* severity
Reported(name, severity) ==
    LET messages == reference[<<"invalid", name>>].messages
    IN  Cardinality({ i \in DOMAIN messages : messages[i].severity = severity })

\* C24: in the generator of level 2, the record of a fixture that is not
\* valid_override has as fatal_count, error_count and warning_count the
\* number of FATAL, ERROR and WARNING messages of the reference document;
\* its error_count_min is 1 when error_count > 1 and the severity of the
\* check is ERROR, and null otherwise; so an error_count_min that is not
\* null is at most error_count.
C24_Level2Counts ==
    (ran # <<>> /\ ran[Len(ran)] = "level2_main") =>
        \A name \in WrittenChecks :
            LET record == expected[<<"invalid", name>>]
            IN  /\ record.fatal_count = Reported(name, "FATAL")
                /\ record.error_count = Reported(name, "ERROR")
                /\ record.warning_count = Reported(name, "WARNING")
                /\ record.error_count_min =
                       (IF record.error_count > 1 /\ checks[name].severity = "ERROR"
                        THEN 1 ELSE None)
                /\ record.error_count_min # None =>
                       record.error_count_min <= record.error_count

\* C24 witness: level 2 has written a record with error_count_min 1 and
\* two errors from a document that also has a USAGE message, and a record
\* of a FATAL check with two errors and a null error_count_min
C24_Witness ==
    /\ ran = <<"level2_main">>
    /\ pc = "done"
    /\ <<"invalid", "opf-missing-metadata">> \in DOMAIN expected
    /\ <<"invalid", "opf-malformed-xml">> \in DOMAIN expected
    /\ expected[<<"invalid", "opf-missing-metadata">>].error_count_min = 1
    /\ expected[<<"invalid", "opf-missing-metadata">>].error_count = 2
    /\ Len(reference[<<"invalid", "opf-missing-metadata">>].messages) = 3
    /\ expected[<<"invalid", "opf-malformed-xml">>].error_count = 2
    /\ expected[<<"invalid", "opf-malformed-xml">>].error_count_min = None

\* C25: in the generators of levels 3 and 4, the record of a fixture that
\* is not valid_override has the error_count_min of its check definition
\* when the definition sets one, and null when it sets none.
C25_MinFromTable ==
    Level34 =>
        \A name \in WrittenChecks :
            expected[<<"invalid", name>>].error_count_min =
                Get(checks[name], "error_count_min", None)

\* C26: the record written for a valid_override fixture, by each of the
\* three generators, has valid true, no messages, the three counts 0, a
\* null error_count_min and the note of the check definition: it is the
\* same whatever the reference document holds.
C26_OverrideFixed ==
    \A name \in DOMAIN checks :
        (Get(checks[name], "valid_override", FALSE)
         /\ <<"invalid", name>> \in DOMAIN expected) =>
            expected[<<"invalid", name>>] =
                [fixture |-> <<"invalid", name>>, valid |-> TRUE, messages |-> <<>>,
                 fatal_count |-> 0, error_count |-> 0, error_count_min |-> None,
                 warning_count |-> 0, note |-> checks[name].note]

\* C26 witness: the generator of level 4 has written the record of a
\* valid_override fixture whose reference document reports a warning and
\* two errors
C26_Witness ==
    /\ pc = "done"
    /\ ran = <<"level4_main">>
    /\ <<"invalid", "opf-epub3-guide">> \in DOMAIN expected
    /\ exists("invalid", "opf-epub3-guide")
    /\ reference[<<"invalid", "opf-epub3-guide">>].checker.nWarning = 1
    /\ reference[<<"invalid", "opf-epub3-guide">>].checker.nError = 2

\* the last line printed is the summary "Done: c created, s skipped"
Summary(c, s) ==
    /\ console # <<>>
    /\ console[Len(console)][1] = "Done"
    /\ console[Len(console)][2] = c
    /\ console[Len(console)][3] = s

\* C27: when main of the level 2 generator has ended, the summary it
\* printed gives as created the number of record files of invalid fixtures
\* written in the run and as skipped the number of fixtures of the table
\* without a reference document, and the two add up to the number of
\* entries of the table.
C27_SummaryExact ==
    (pc = "done" /\ ran # <<>> /\ ran[Len(ran)] = "level2_main") =>
        LET c == Cardinality({ i \in 1..Len(written) :
                                 written[i][1] = "invalid" /\ written[i][2] \in DOMAIN checks })
            s == Cardinality({ name \in DOMAIN checks : ~exists("invalid", name) })
        IN  /\ Summary(c, s)
            /\ c + s = Cardinality(DOMAIN checks)

\* C27 witness: level 2 has ended with one record created and one fixture
\* skipped
C27_Witness ==
    /\ pc = "done"
    /\ ran = <<"level2_main">>
    /\ Summary(1, 1)
    /\ created = 1
    /\ skipped = 1

(***************************************************************************)
(* Further properties of the four operations.                              *)
(***************************************************************************)
\* the entries of the archive at path p whose name satisfies Test
Entries(p, Test(_)) ==
    { i \in 1..Len(infolist(fs[p])) : Test(infolist(fs[p])[i].filename) }

\* the final output path of an operation that has returned in this run
ReturnedPaths ==
    { p \in FinalPaths :
        \/ p = OUT_NOT_FIRST /\ ReturnedNotFirst
        \/ p = OUT_COMPRESSED /\ ReturnedCompressed
        \/ p = OUT_EXTRA_FIELD /\ ReturnedExtraField
        \/ p = EPUB_DUPLICATE /\ ReturnedDuplicate }

\* C28: the archive an operation has produced has no two entries of the
\* same name; and the archive of the duplicate case, whose input held
\* OEBPS/chapter1.xhtml, has exactly one entry named OEBPS/Chapter1.xhtml
\* and exactly two entries whose name is OEBPS/chapter1.xhtml when case is
\* ignored.
C28_DistinctNames ==
    /\ \A p \in ReturnedPaths :
           \A i, j \in 1..Len(infolist(fs[p])) :
               i # j => infolist(fs[p])[i].filename # infolist(fs[p])[j].filename
    /\ ReturnedDuplicate =>
           /\ Cardinality(Entries(EPUB_DUPLICATE, LAMBDA n : n = A_Chapter1)) = 1
           /\ Cardinality(Entries(EPUB_DUPLICATE,
                                  LAMBDA n : lower(n) = lower(A_chapter1))) = 2

\* the temporary path and the final output path of operation k (3 or 4)
TmpOf(k) == IF k = 3 THEN TMP_EXTRA_FIELD ELSE TMP_DUPLICATE
FinalOf(k) == IF k = 3 THEN OUT_EXTRA_FIELD ELSE EPUB_DUPLICATE

\* the step with which build_mimetype_extra_field or
\* build_manifest_duplicate_item_same_resource returns or fails leaves no
\* file at tmp and no path but the final one different from what it held
\* when the operation began
C29_Step ==
    (/\ OpOf(pc) \in {3, 4}
     /\ pc' # pc
     /\ pc' = "aborted" \/ OpOf(pc') # OpOf(pc)) =>
        /\ fs'[TmpOf(OpOf(pc))] = NoFile
        /\ \A p \in Paths \ {FinalOf(OpOf(pc))} : fs'[p] = before[p]

\* C29: when build_mimetype_extra_field or
\* build_manifest_duplicate_item_same_resource returns or is stopped by a
\* failure, its '.tmp' file does not exist and the only path whose content
\* is not what it was before the operation is the final output path.
C29_NoIntermediate == [][C29_Step]_vars

(***************************************************************************)
(* Fixtures and expectation records of one level.                          *)
(***************************************************************************)
\* the names of the directories of the category below fixtures/src
FixturesOf(category) == { d[2] : d \in { e \in DOMAIN fixtures_src : e[1] = category } }

\* the keys of the whole check table of the generator whose main is s
KeysOf(s) ==
    IF s = "level2_main" THEN LEVEL2_KEYS
    ELSE IF s = "level3_main" THEN LEVEL3_KEYS
    ELSE LEVEL4_KEYS

\* C30: when the fixture script of a level and then its generator have
\* run, the invalid fixtures the script created are exactly the keys of
\* the check table of the level; the valid fixtures are minimal-epub2 at
\* level 2, fxl-epub3 and epub3-with-css at level 3 and none at level 4;
\* and each valid fixture has the record of a valid fixture, written by
\* the generator of the level.
C30_OneToOne ==
    (pc = "done" /\ Len(ran) = 1 /\ calls > 0) =>
        /\ FixturesOf("invalid") = KeysOf(ran[1])
        /\ DOMAIN checks \subseteq KeysOf(ran[1])
        /\ FixturesOf("valid") =
               (IF ran[1] = "level2_main" THEN {"minimal-epub2"}
                ELSE IF ran[1] = "level3_main" THEN {"fxl-epub3", "epub3-with-css"}
                ELSE {})
        /\ \A name \in FixturesOf("valid") :
               /\ <<"valid", name>> \in DOMAIN expected
               /\ expected[<<"valid", name>>] = create_valid_expected(name)
               /\ \E i \in 1..Len(written) : written[i] = <<"valid", name>>

\* C30 witness: level 3 has run from end to end: 55 invalid and 2 valid
\* fixtures, the two valid records and the records of the table
C30_Witness ==
    /\ pc = "done"
    /\ ran = <<"level3_main">>
    /\ calls = 57
    /\ Cardinality(FixturesOf("invalid")) = 55
    /\ FixturesOf("valid") = {"fxl-epub3", "epub3-with-css"}
    /\ <<"valid", "fxl-epub3">> \in DOMAIN expected
    /\ <<"invalid", "css-syntax-error">> \in DOMAIN expected
    /\ HasBoth(fixtures_src[<<"valid", "fxl-epub3">>])

====
